---- MODULE Spec2Model ----
(***************************************************************************)
(* Model of the error-handling chapter (src/18.Error Handling/src/main.rs) *)
(* of rust-by-example: Option / Result values, their combinators, the `?`  *)
(* operator, error conversion (From), boxed errors and the cause chain.    *)
(*                                                                         *)
(* One call of one demonstration function is in flight at a time.  Every  *)
(* function is a small state machine over its statements; `parsed` and     *)
(* `calls` record the observable events of the call (each string handed to *)
(* parse, each closure, helper or From conversion that is entered), `out`  *)
(* the lines its print consumer writes.                                    *)
(***************************************************************************)
EXTENDS Integers, Sequences, FiniteSets, TLC

VARIABLES
    overflow_checks, \* build profile: TRUE = debug (overflow panics), FALSE = release (wraps)
    fn,              \* the function in flight, or "idle"
    pc,              \* the statement the function is at
    args,            \* the arguments of the call
    loc,             \* the local bindings of the call
    ret,             \* what the call produced: NoRet, a value, or a panic
    parsed,          \* the strings handed to parse during the call, in order
    calls,           \* the closures, helpers and conversions entered during the call, in order
    out              \* lines printed by the consumer of the result

vars == <<overflow_checks, fn, pc, args, loc, ret, parsed, calls, out>>

----------------------------------------------------------------------------
(* Bounds of the model *)

\* longest generated input string
MaxStrLen == 2
\* longest generated input vector
MaxVecLen == 2
\* steps allowed when following source() links
MaxWalk == 4

----------------------------------------------------------------------------
(* Machine integers *)

I32Max == 2147483647
I32Min == (-2147483647) - 1
U8Max == 255

Abs(n) == IF n < 0 THEN 0 - n ELSE n

\* the low and high 16 bits of the two's complement pattern of a
Lo16(a) == a % 65536
Hi16(a) == (a \div 65536) % 65536

\* x * y mod 2^16 for 16-bit x, y, with no intermediate value above 2^25
MulLow16(x, y) == (x * (y % 256) + ((x * (y \div 256)) % 256) * 256) % 65536

\* i32::wrapping_mul: a * b mod 2^32 as a signed value, computed on 16-bit halves
WrapMul(a, b) ==
    LET x0 == Lo16(a) * (Lo16(b) % 256)
        x1 == Lo16(a) * (Lo16(b) \div 256)
        t  == x0 + (x1 % 256) * 256
        lo == t % 65536
        carry == (t \div 65536) + (x1 \div 256)
        hi == (carry + MulLow16(Hi16(a), Lo16(b)) + MulLow16(Lo16(a), Hi16(b))) % 65536
    IN  IF hi >= 32768 THEN (hi - 65536) * 65536 + lo ELSE hi * 65536 + lo

\* does a * b leave the i32 range (i32::checked_mul is None)
MulOverflows(a, b) ==
    IF a = 0 \/ b = 0 THEN FALSE
    ELSE IF a = I32Min THEN b # 1
    ELSE IF b = I32Min THEN a # 1
    ELSE IF (a > 0) = (b > 0)
         THEN Abs(a) > I32Max \div Abs(b)
         ELSE \* negative product: |a|*|b| <= 2^31
              /\ Abs(a) > I32Max \div Abs(b)
              /\ ~ (/\ I32Max % Abs(b) = Abs(b) - 1
                    /\ Abs(a) = (I32Max \div Abs(b)) + 1)

----------------------------------------------------------------------------
(* Values: Option, Result, panics, errors *)

None == [tag |-> "None"]
Some(v) == [tag |-> "Some", val |-> v]
Ok(v) == [tag |-> "Ok", val |-> v]
Err(e) == [tag |-> "Err", err |-> e]
Panic(m) == [tag |-> "Panic", msg |-> m]
NoRet == [tag |-> "NoRet"]

IsSome(o) == o.tag = "Some"
IsOk(r) == r.tag = "Ok"
IsErr(r) == r.tag = "Err"
IsPanic(r) == r.tag = "Panic"

\* std::num::ParseIntError, identified by its kind
ParseIntError(k) == [type |-> "ParseIntError", kind |-> k]

----------------------------------------------------------------------------
(* str::parse::<i32>() *)

Digits == {"0", "1", "2", "3", "4", "5", "6", "7", "8", "9"}

\* char::to_digit(10)
DigitVal(c) ==
    CASE c = "0" -> 0 [] c = "1" -> 1 [] c = "2" -> 2 [] c = "3" -> 3
      [] c = "4" -> 4 [] c = "5" -> 5 [] c = "6" -> 6 [] c = "7" -> 7
      [] c = "8" -> 8 [] c = "9" -> 9

RECURSIVE ParseDigits(_, _, _, _)
\* the accumulation loop of from_str_radix over digits s[i..], left to right:
\* an invalid digit or an overflow ends it at the first offending position
ParseDigits(s, i, acc, neg) ==
    IF i > Len(s) THEN Ok(acc)
    ELSE IF s[i] \notin Digits THEN Err(ParseIntError("InvalidDigit"))
    ELSE LET d == DigitVal(s[i])
         IN  IF neg
             THEN IF acc < -214748364 \/ acc * 10 < I32Min + d
                  THEN Err(ParseIntError("NegOverflow"))
                  ELSE ParseDigits(s, i + 1, acc * 10 - d, neg)
             ELSE IF acc > 214748364 \/ acc * 10 > I32Max - d
                  THEN Err(ParseIntError("PosOverflow"))
                  ELSE ParseDigits(s, i + 1, acc * 10 + d, neg)

\* s.parse::<i32>(): s is the sequence of the string's characters
Parse(s) ==
    IF Len(s) = 0 THEN Err(ParseIntError("Empty"))
    ELSE IF Len(s) = 1 /\ s[1] \in {"+", "-"} THEN Err(ParseIntError("InvalidDigit"))
    ELSE IF s[1] = "+" THEN ParseDigits(s, 2, 0, FALSE)
    ELSE IF s[1] = "-" THEN ParseDigits(s, 2, 0, TRUE)
    ELSE ParseDigits(s, 1, 0, FALSE)

----------------------------------------------------------------------------
(* Inputs *)

Alphabet == {"t", "-", "1", "2"}

RECURSIVE SeqsUpTo(_, _)
\* all sequences over S of length at most n
SeqsUpTo(S, n) ==
    IF n = 0 THEN {<<>>}
    ELSE LET shorter == SeqsUpTo(S, n - 1)
         IN  shorter \cup {Append(s, c) : s \in {t \in shorter : Len(t) = n - 1}, c \in S}

\* the strings the chapter itself uses, and strings at the edges of the i32 range
DemoStrs ==
    { <<"1", "0">>, <<"4", "2">>, <<"9", "3">>, <<"t", "o", "f", "u">>, <<"+", "2">>,
      <<"6", "5", "5", "3", "6">>, <<"3", "2", "7", "6", "8">>,
      <<"-", "6", "5", "5", "3", "6">>, <<"-", "3", "2", "7", "6", "8">>,
      <<"2", "1", "4", "7", "4", "8", "3", "6", "4", "7">>,
      <<"2", "1", "4", "7", "4", "8", "3", "6", "4", "8">>,
      <<"-", "2", "1", "4", "7", "4", "8", "3", "6", "4", "8">>,
      <<"-", "2", "1", "4", "7", "4", "8", "3", "6", "4", "9">>,
      <<"1", "0", "7", "3", "7", "4", "1", "8", "2", "4">> }

Strs == SeqsUpTo(Alphabet, MaxStrLen) \cup DemoStrs

\* elements of input vectors
VecElems ==
    { <<"4", "2">>, <<"t", "o", "f", "u">>, <<>>,
      <<"2", "1", "4", "7", "4", "8", "3", "6", "4", "7">>,
      <<"-", "1", "0", "7", "3", "7", "4", "1", "8", "2", "5">> }

Vecs == SeqsUpTo(VecElems, MaxVecLen)

----------------------------------------------------------------------------
(* Arithmetic of the function bodies, under the build profile *)

\* a * b on i32: panics under overflow checks, wraps otherwise
MulI32(a, b) ==
    IF MulOverflows(a, b)
    THEN IF overflow_checks
         THEN Panic("attempt to multiply with overflow")
         ELSE Ok(WrapMul(a, b))
    ELSE Ok(a * b)

----------------------------------------------------------------------------
(* Combinators and the `?` operator *)

\* impl From<T> for T
FromSame(e) == e

\* the `?` operator on a Result: continue with the payload, or break out of the
\* enclosing function, which returns Err(From::from(err))
Try(r) ==
    IF IsOk(r)
    THEN [branch |-> "Continue", val |-> r.val]
    ELSE [branch |-> "Break", err |-> r.err]

----------------------------------------------------------------------------
(* Error types, their Display and Error::source *)

\* impl Display for ParseIntError (std)
ParseIntError_fmt(e) ==
    CASE e.kind = "Empty" -> "cannot parse integer from empty string"
      [] e.kind = "InvalidDigit" -> "invalid digit found in string"
      [] e.kind = "PosOverflow" -> "number too large to fit in target type"
      [] e.kind = "NegOverflow" -> "number too small to fit in target type"

\* wrapping_errors::DoubleError
DoubleError_EmptyVec == [type |-> "wrapping_errors::DoubleError", variant |-> "EmptyVec"]
DoubleError_Parse(e) == [type |-> "wrapping_errors::DoubleError", variant |-> "Parse", e0 |-> e]

\* impl fmt::Display for wrapping_errors::DoubleError
DoubleError_fmt(e) ==
    IF e.variant = "EmptyVec"
    THEN "please use a vector with at least one element"
    ELSE "the provided string could not be parsed as int"

\* a source() that hands back the error itself
DoubleError_source_self(e) == Some(e)

\* a source() that drops the cause
DoubleError_source_none(e) == None

\* impl error::Error for wrapping_errors::DoubleError: fn source
DoubleError_source(e) ==
    IF e.variant = "EmptyVec" THEN None ELSE Some(e.e0)

\* a From that loses the wrapped error
DoubleError_from_empty(err) == DoubleError_EmptyVec

\* impl From<ParseIntError> for wrapping_errors::DoubleError
DoubleError_from(err) == DoubleError_Parse(err)

\* boxing_errors::EmptyVec and other_uses_of_question_mark::EmptyVec
EmptyVec == [type |-> "EmptyVec"]

\* impl fmt::Display for EmptyVec
EmptyVec_fmt(e) == "invalid first item to double"

\* defining_an_error_type::DoubleError (a unit struct)
DoubleErrorUnit == [type |-> "defining_an_error_type::DoubleError"]

\* impl fmt::Display for defining_an_error_type::DoubleError
DoubleErrorUnit_fmt(e) == "invalid first item to double"

\* Box<dyn error::Error>: impl From<E: Error> for Box<dyn Error> (`.into()`)
Box_from(e) == [type |-> "Box", inner |-> e]

\* Display of a concrete error, by its type
ConcreteDisplay(e) ==
    CASE e.type = "ParseIntError" -> ParseIntError_fmt(e)
      [] e.type = "wrapping_errors::DoubleError" -> DoubleError_fmt(e)
      [] e.type = "EmptyVec" -> EmptyVec_fmt(e)
      [] e.type = "defining_an_error_type::DoubleError" -> DoubleErrorUnit_fmt(e)

\* `{}` of an error: a box forwards to the error it holds
Display(e) == IF e.type = "Box" THEN ConcreteDisplay(e.inner) ELSE ConcreteDisplay(e)

\* Error::source of a concrete error: only wrapping_errors::DoubleError overrides the default
ConcreteSource(e) ==
    IF e.type = "wrapping_errors::DoubleError" THEN DoubleError_source(e) ELSE None

\* e.source(): a box forwards to the error it holds
Source(e) == IF e.type = "Box" THEN ConcreteSource(e.inner) ELSE ConcreteSource(e)

\* <[T]>::first
First(vec) == IF Len(vec) = 0 THEN None ELSE Some(vec[1])

\* Option::ok_or
OkOr(o, e) == IF IsSome(o) THEN Ok(o.val) ELSE Err(e)

----------------------------------------------------------------------------
(* Call frames *)

Idle == fn = "idle"
Returned == fn # "idle" /\ pc = "returned"

\* enter function f at label l with arguments a
Enter(f, l, a) ==
    /\ fn' = f /\ pc' = l /\ args' = a
    /\ loc' = <<>> /\ ret' = NoRet /\ parsed' = <<>> /\ calls' = <<>> /\ out' = <<>>
    /\ UNCHANGED overflow_checks

At(f, l) == fn = f /\ pc = l

\* bind local n to v
Let(n, v) == loc' = (n :> v) @@ loc

\* leave the function with r
Return(r) == ret' = r /\ pc' = "returned"

----------------------------------------------------------------------------
(* map_for_result::multiply_with_match *)

MWM == "map_for_result::multiply_with_match"

multiply_with_match_call ==
    /\ Idle
    /\ \E a \in Strs, b \in Strs :
        Enter(MWM, "match_first", [first_number_str |-> a, second_number_str |-> b])

\* a first match that goes on to the second parse after a failed first one
multiply_with_match_first_goes_on ==
    /\ At(MWM, "match_first")
    /\ parsed' = Append(parsed, args.first_number_str)
    /\ LET r == Parse(args.first_number_str)
       IN  Let("first_number", IF IsOk(r) THEN r.val ELSE 0)
    /\ pc' = "match_second"
    /\ UNCHANGED <<overflow_checks, fn, args, ret, calls, out>>

\* match first_number_str.parse::<i32>() { Ok(first_number) => .., Err(e) => Err(e) }
multiply_with_match_first ==
    /\ At(MWM, "match_first")
    /\ parsed' = Append(parsed, args.first_number_str)
    /\ LET r == Parse(args.first_number_str)
       IN  IF IsOk(r)
           THEN Let("first_number", r.val) /\ pc' = "match_second" /\ UNCHANGED ret
           ELSE Return(Err(r.err)) /\ UNCHANGED loc
    /\ UNCHANGED <<overflow_checks, fn, args, calls, out>>

multiply_with_match_second ==
    /\ At(MWM, "match_second")
    /\ parsed' = Append(parsed, args.second_number_str)
    /\ LET r == Parse(args.second_number_str)
       IN  IF IsOk(r)
           THEN Return(MulI32(loc.first_number, r.val))
           ELSE Return(Err(r.err))
    /\ UNCHANGED <<overflow_checks, fn, args, loc, calls, out>>

----------------------------------------------------------------------------
(* map_for_result::multiply_with_combinators and aliases_for_result::multiply: *)
(* parse(first).and_then(|first_number| parse(second).map(|second_number| ..)) *)

MWC == "map_for_result::multiply_with_combinators"
AM == "aliases_for_result::multiply"

combinators_call(f) ==
    /\ Idle
    /\ \E a \in Strs, b \in Strs :
        Enter(f, "parse_first", [first_number_str |-> a, second_number_str |-> b])

\* first_number_str.parse::<i32>()
combinators_parse_first(f) ==
    /\ At(f, "parse_first")
    /\ parsed' = Append(parsed, args.first_number_str)
    /\ Let("r1", Parse(args.first_number_str))
    /\ pc' = "and_then"
    /\ UNCHANGED <<overflow_checks, fn, args, ret, calls, out>>

\* .and_then(|first_number| ...): the closure is entered only on Ok
combinators_and_then(f) ==
    /\ At(f, "and_then")
    /\ IF IsOk(loc.r1)
       THEN /\ calls' = Append(calls, "closure |first_number|")
            /\ Let("first_number", loc.r1.val)
            /\ pc' = "parse_second"
            /\ UNCHANGED ret
       ELSE /\ Return(Err(loc.r1.err))
            /\ UNCHANGED <<loc, calls>>
    /\ UNCHANGED <<overflow_checks, fn, args, parsed, out>>

\* second_number_str.parse::<i32>(), inside the outer closure
combinators_parse_second(f) ==
    /\ At(f, "parse_second")
    /\ parsed' = Append(parsed, args.second_number_str)
    /\ Let("r2", Parse(args.second_number_str))
    /\ pc' = "map"
    /\ UNCHANGED <<overflow_checks, fn, args, ret, calls, out>>

\* a map whose closure drops the first factor
combinators_map_second_only(f) ==
    /\ At(f, "map")
    /\ IF IsOk(loc.r2)
       THEN /\ calls' = Append(calls, "closure |second_number|")
            /\ Return(Ok(loc.r2.val))
       ELSE /\ Return(Err(loc.r2.err))
            /\ UNCHANGED calls
    /\ UNCHANGED <<overflow_checks, fn, args, loc, parsed, out>>

\* .map(|second_number| first_number * second_number)
combinators_map(f) ==
    /\ At(f, "map")
    /\ IF IsOk(loc.r2)
       THEN /\ calls' = Append(calls, "closure |second_number|")
            /\ Return(MulI32(loc.first_number, loc.r2.val))
       ELSE /\ Return(Err(loc.r2.err))
            /\ UNCHANGED calls
    /\ UNCHANGED <<overflow_checks, fn, args, loc, parsed, out>>

multiply_with_combinators_call == combinators_call(MWC)
multiply_with_combinators_parse_first == combinators_parse_first(MWC)
multiply_with_combinators_and_then == combinators_and_then(MWC)
multiply_with_combinators_parse_second == combinators_parse_second(MWC)
multiply_with_combinators_map == combinators_map(MWC)

aliases_multiply_call == combinators_call(AM)
aliases_multiply_parse_first == combinators_parse_first(AM)
aliases_multiply_and_then == combinators_and_then(AM)
aliases_multiply_parse_second == combinators_parse_second(AM)
aliases_multiply_map == combinators_map(AM)

----------------------------------------------------------------------------
(* eraly_result::multiply: match with `return Err(e)` *)

ERM == "eraly_result::multiply"

eraly_result_multiply_call ==
    /\ Idle
    /\ \E a \in Strs, b \in Strs :
        Enter(ERM, "match_first", [first_number_str |-> a, second_number_str |-> b])

eraly_result_multiply_first ==
    /\ At(ERM, "match_first")
    /\ parsed' = Append(parsed, args.first_number_str)
    /\ LET r == Parse(args.first_number_str)
       IN  IF IsOk(r)
           THEN Let("first_number", r.val) /\ pc' = "match_second" /\ UNCHANGED ret
           ELSE Return(Err(r.err)) /\ UNCHANGED loc
    /\ UNCHANGED <<overflow_checks, fn, args, calls, out>>

eraly_result_multiply_second ==
    /\ At(ERM, "match_second")
    /\ parsed' = Append(parsed, args.second_number_str)
    /\ LET r == Parse(args.second_number_str)
       IN  IF IsOk(r)
           THEN Let("second_number", r.val) /\ pc' = "ok" /\ UNCHANGED ret
           ELSE Return(Err(r.err)) /\ UNCHANGED loc
    /\ UNCHANGED <<overflow_checks, fn, args, calls, out>>

\* Ok(first_number * second_number)
eraly_result_multiply_ok ==
    /\ At(ERM, "ok")
    /\ Return(MulI32(loc.first_number, loc.second_number))
    /\ UNCHANGED <<overflow_checks, fn, args, loc, parsed, calls, out>>

----------------------------------------------------------------------------
(* intorducing_question_mark::multiply: the `?` operator *)

QM == "intorducing_question_mark::multiply"

question_mark_multiply_call ==
    /\ Idle
    /\ \E a \in Strs, b \in Strs :
        Enter(QM, "parse_first", [first_number_str |-> a, second_number_str |-> b])

\* first_number_str.parse::<i32>()
question_mark_multiply_parse_first ==
    /\ At(QM, "parse_first")
    /\ parsed' = Append(parsed, args.first_number_str)
    /\ Let("r1", Parse(args.first_number_str))
    /\ pc' = "try_first"
    /\ UNCHANGED <<overflow_checks, fn, args, ret, calls, out>>

\* a `?` that falls through on Err, with 0 bound to first_number
question_mark_multiply_try_first_through ==
    /\ At(QM, "try_first")
    /\ Let("first_number", IF IsOk(loc.r1) THEN loc.r1.val ELSE 0)
    /\ pc' = "parse_second"
    /\ UNCHANGED <<overflow_checks, fn, args, ret, parsed, calls, out>>

\* let first_number = ...?;
question_mark_multiply_try_first ==
    /\ At(QM, "try_first")
    /\ LET t == Try(loc.r1)
       IN  IF t.branch = "Continue"
           THEN Let("first_number", t.val) /\ pc' = "parse_second" /\ UNCHANGED ret
           ELSE Return(Err(FromSame(t.err))) /\ UNCHANGED loc
    /\ UNCHANGED <<overflow_checks, fn, args, parsed, calls, out>>

\* second_number_str.parse::<i32>()
question_mark_multiply_parse_second ==
    /\ At(QM, "parse_second")
    /\ parsed' = Append(parsed, args.second_number_str)
    /\ Let("r2", Parse(args.second_number_str))
    /\ pc' = "try_second"
    /\ UNCHANGED <<overflow_checks, fn, args, ret, calls, out>>

\* let second_number = ...?;
question_mark_multiply_try_second ==
    /\ At(QM, "try_second")
    /\ LET t == Try(loc.r2)
       IN  IF t.branch = "Continue"
           THEN Let("second_number", t.val) /\ pc' = "ok" /\ UNCHANGED ret
           ELSE Return(Err(FromSame(t.err))) /\ UNCHANGED loc
    /\ UNCHANGED <<overflow_checks, fn, args, parsed, calls, out>>

\* Ok(first_number * second_number)
question_mark_multiply_ok ==
    /\ At(QM, "ok")
    /\ Return(MulI32(loc.first_number, loc.second_number))
    /\ UNCHANGED <<overflow_checks, fn, args, loc, parsed, calls, out>>

MultiplyFns == {MWM, MWC, AM, ERM, QM}

----------------------------------------------------------------------------
(* Printing the result of a multiply: fn print of each section *)

\* match result { Ok(n) => "n is {}", Err(e) => "Error: {}" }
multiply_print ==
    /\ fn \in MultiplyFns /\ pc = "returned" /\ ~IsPanic(ret)
    /\ out' = IF IsOk(ret)
              THEN <<  <<"n is ", ret.val>>  >>
              ELSE <<  <<"Error: ", Display(ret.err)>>  >>
    /\ pc' = "printed"
    /\ UNCHANGED <<overflow_checks, fn, args, loc, ret, parsed, calls>>

----------------------------------------------------------------------------
(* wrapping_errors::double_first and wrapping_errors::print *)

WDF == "wrapping_errors::double_first"

wrapping_double_first_call ==
    /\ Idle
    /\ \E v \in Vecs : Enter(WDF, "first", [vec |-> v])

\* vec.first().ok_or(DoubleError::EmptyVec)
wrapping_double_first_first ==
    /\ At(WDF, "first")
    /\ Let("r0", OkOr(First(args.vec), DoubleError_EmptyVec))
    /\ pc' = "try_first"
    /\ UNCHANGED <<overflow_checks, fn, args, ret, parsed, calls, out>>

\* a `?` that falls through on Err, with a placeholder bound to `first`
wrapping_double_first_try_first_through ==
    /\ At(WDF, "try_first")
    /\ Let("first", IF IsOk(loc.r0) THEN loc.r0.val ELSE <<>>)
    /\ pc' = "parse"
    /\ UNCHANGED <<overflow_checks, fn, args, ret, parsed, calls, out>>

\* let first = ...?;
wrapping_double_first_try_first ==
    /\ At(WDF, "try_first")
    /\ LET t == Try(loc.r0)
       IN  IF t.branch = "Continue"
           THEN Let("first", t.val) /\ pc' = "parse" /\ UNCHANGED ret
           ELSE Return(Err(FromSame(t.err))) /\ UNCHANGED loc
    /\ UNCHANGED <<overflow_checks, fn, args, parsed, calls, out>>

\* first.parse::<i32>()
wrapping_double_first_parse ==
    /\ At(WDF, "parse")
    /\ parsed' = Append(parsed, loc.first)
    /\ Let("r1", Parse(loc.first))
    /\ pc' = "try_parse"
    /\ UNCHANGED <<overflow_checks, fn, args, ret, calls, out>>

\* let parsed = ...?;  the Err arm goes through From<ParseIntError> for DoubleError
wrapping_double_first_try_parse ==
    /\ At(WDF, "try_parse")
    /\ LET t == Try(loc.r1)
       IN  IF t.branch = "Continue"
           THEN Let("parsed", t.val) /\ pc' = "ok" /\ UNCHANGED <<ret, calls>>
           ELSE /\ calls' = Append(calls, "DoubleError::from")
                /\ Return(Err(DoubleError_from(t.err)))
                /\ UNCHANGED loc
    /\ UNCHANGED <<overflow_checks, fn, args, parsed, out>>

\* Ok(2 * parsed)
wrapping_double_first_ok ==
    /\ At(WDF, "ok")
    /\ calls' = Append(calls, "2 * parsed")
    /\ Return(MulI32(2, loc.parsed))
    /\ UNCHANGED <<overflow_checks, fn, args, loc, parsed, out>>

\* wrapping_errors::print: the error, then its cause if it has one
wrapping_print ==
    /\ At(WDF, "returned") /\ ~IsPanic(ret)
    /\ out' = IF IsOk(ret)
              THEN <<  <<"The first doubled is ", ret.val>>  >>
              ELSE LET e == ret.err
                       source == Source(e)
                   IN  <<  <<"Error: ", Display(e)>>  >>
                       \o (IF IsSome(source)
                           THEN <<  <<"  Caused by: ", Display(source.val)>>  >>
                           ELSE <<>>)
    /\ pc' = "printed"
    /\ UNCHANGED <<overflow_checks, fn, args, loc, ret, parsed, calls>>

----------------------------------------------------------------------------
(* boxing_errors::double_first and boxing_errors::print *)

BDF == "boxing_errors::double_first"

boxing_double_first_call ==
    /\ Idle
    /\ \E v \in Vecs : Enter(BDF, "first", [vec |-> v])

\* vec.first()
boxing_double_first_first ==
    /\ At(BDF, "first")
    /\ Let("opt", First(args.vec))
    /\ pc' = "ok_or_else"
    /\ UNCHANGED <<overflow_checks, fn, args, ret, parsed, calls, out>>

\* .ok_or_else(|| EmptyVec.into()): the closure runs only on None
boxing_double_first_ok_or_else ==
    /\ At(BDF, "ok_or_else")
    /\ IF IsSome(loc.opt)
       THEN Let("r0", Ok(loc.opt.val)) /\ UNCHANGED calls
       ELSE /\ calls' = Append(calls, "closure || EmptyVec.into()")
            /\ Let("r0", Err(Box_from(EmptyVec)))
    /\ pc' = "and_then"
    /\ UNCHANGED <<overflow_checks, fn, args, ret, parsed, out>>

\* .and_then(|s| ...): the closure is entered only on Ok
boxing_double_first_and_then ==
    /\ At(BDF, "and_then")
    /\ IF IsOk(loc.r0)
       THEN /\ calls' = Append(calls, "closure |s|")
            /\ Let("s", loc.r0.val)
            /\ pc' = "parse"
            /\ UNCHANGED ret
       ELSE /\ Return(Err(loc.r0.err))
            /\ UNCHANGED <<loc, calls>>
    /\ UNCHANGED <<overflow_checks, fn, args, parsed, out>>

\* s.parse::<i32>()
boxing_double_first_parse ==
    /\ At(BDF, "parse")
    /\ parsed' = Append(parsed, loc.s)
    /\ Let("r1", Parse(loc.s))
    /\ pc' = "map_err"
    /\ UNCHANGED <<overflow_checks, fn, args, ret, calls, out>>

\* .map_err(|e| e.into()): the closure runs only on Err
boxing_double_first_map_err ==
    /\ At(BDF, "map_err")
    /\ IF IsErr(loc.r1)
       THEN /\ calls' = Append(calls, "closure |e| e.into()")
            /\ Let("r2", Err(Box_from(loc.r1.err)))
       ELSE Let("r2", loc.r1) /\ UNCHANGED calls
    /\ pc' = "map"
    /\ UNCHANGED <<overflow_checks, fn, args, ret, parsed, out>>

\* .map(|i| 2 * i): the closure runs only on Ok
boxing_double_first_map ==
    /\ At(BDF, "map")
    /\ IF IsOk(loc.r2)
       THEN /\ calls' = Append(calls, "closure |i| 2 * i")
            /\ Return(MulI32(2, loc.r2.val))
       ELSE Return(Err(loc.r2.err)) /\ UNCHANGED calls
    /\ UNCHANGED <<overflow_checks, fn, args, loc, parsed, out>>

\* a print that writes nothing for an error
boxing_print_silent ==
    /\ At(BDF, "returned") /\ ~IsPanic(ret)
    /\ out' = IF IsOk(ret)
              THEN <<  <<"The first doubled is ", ret.val>>  >>
              ELSE <<>>
    /\ pc' = "printed"
    /\ UNCHANGED <<overflow_checks, fn, args, loc, ret, parsed, calls>>

\* boxing_errors::print: match result { Ok(n) => .., Err(e) => println!("Error: {}", e) }
boxing_print ==
    /\ At(BDF, "returned") /\ ~IsPanic(ret)
    /\ out' = IF IsOk(ret)
              THEN <<  <<"The first doubled is ", ret.val>>  >>
              ELSE <<  <<"Error: ", Display(ret.err)>>  >>
    /\ pc' = "printed"
    /\ UNCHANGED <<overflow_checks, fn, args, loc, ret, parsed, calls>>

----------------------------------------------------------------------------
(* other_uses_of_question_mark::double_first: `?` into Box<dyn Error> *)

ODF == "other_uses_of_question_mark::double_first"

other_uses_double_first_call ==
    /\ Idle
    /\ \E v \in Vecs : Enter(ODF, "first", [vec |-> v])

\* vec.first().ok_or(EmptyVec)
other_uses_double_first_first ==
    /\ At(ODF, "first")
    /\ Let("r0", OkOr(First(args.vec), EmptyVec))
    /\ pc' = "try_first"
    /\ UNCHANGED <<overflow_checks, fn, args, ret, parsed, calls, out>>

\* let first = ...?;  the Err arm boxes the EmptyVec
other_uses_double_first_try_first ==
    /\ At(ODF, "try_first")
    /\ LET t == Try(loc.r0)
       IN  IF t.branch = "Continue"
           THEN Let("first", t.val) /\ pc' = "parse" /\ UNCHANGED ret
           ELSE Return(Err(Box_from(t.err))) /\ UNCHANGED loc
    /\ UNCHANGED <<overflow_checks, fn, args, parsed, calls, out>>

\* first.parse::<i32>()
other_uses_double_first_parse ==
    /\ At(ODF, "parse")
    /\ parsed' = Append(parsed, loc.first)
    /\ Let("r1", Parse(loc.first))
    /\ pc' = "try_parse"
    /\ UNCHANGED <<overflow_checks, fn, args, ret, calls, out>>

\* let parsed = ...?;  the Err arm boxes the ParseIntError
other_uses_double_first_try_parse ==
    /\ At(ODF, "try_parse")
    /\ LET t == Try(loc.r1)
       IN  IF t.branch = "Continue"
           THEN Let("parsed", t.val) /\ pc' = "ok" /\ UNCHANGED ret
           ELSE Return(Err(Box_from(t.err))) /\ UNCHANGED loc
    /\ UNCHANGED <<overflow_checks, fn, args, parsed, calls, out>>

\* Ok(2 * parsed)
other_uses_double_first_ok ==
    /\ At(ODF, "ok")
    /\ calls' = Append(calls, "2 * parsed")
    /\ Return(MulI32(2, loc.parsed))
    /\ UNCHANGED <<overflow_checks, fn, args, loc, parsed, out>>

----------------------------------------------------------------------------
(* defining_an_error_type::double_first: ok_or / and_then / map_err / map *)

DDF == "defining_an_error_type::double_first"

defining_double_first_call ==
    /\ Idle
    /\ \E v \in Vecs : Enter(DDF, "first", [vec |-> v])

\* vec.first().ok_or(DoubleError)
defining_double_first_first ==
    /\ At(DDF, "first")
    /\ Let("r0", OkOr(First(args.vec), DoubleErrorUnit))
    /\ pc' = "and_then"
    /\ UNCHANGED <<overflow_checks, fn, args, ret, parsed, calls, out>>

\* .and_then(|s| ...)
defining_double_first_and_then ==
    /\ At(DDF, "and_then")
    /\ IF IsOk(loc.r0)
       THEN /\ calls' = Append(calls, "closure |s|")
            /\ Let("s", loc.r0.val)
            /\ pc' = "parse"
            /\ UNCHANGED ret
       ELSE /\ Return(Err(loc.r0.err))
            /\ UNCHANGED <<loc, calls>>
    /\ UNCHANGED <<overflow_checks, fn, args, parsed, out>>

\* s.parse::<i32>()
defining_double_first_parse ==
    /\ At(DDF, "parse")
    /\ parsed' = Append(parsed, loc.s)
    /\ Let("r1", Parse(loc.s))
    /\ pc' = "map_err"
    /\ UNCHANGED <<overflow_checks, fn, args, ret, calls, out>>

\* .map_err(|_| DoubleError)
defining_double_first_map_err ==
    /\ At(DDF, "map_err")
    /\ IF IsErr(loc.r1)
       THEN /\ calls' = Append(calls, "closure |_| DoubleError")
            /\ Let("r2", Err(DoubleErrorUnit))
       ELSE Let("r2", loc.r1) /\ UNCHANGED calls
    /\ pc' = "map"
    /\ UNCHANGED <<overflow_checks, fn, args, ret, parsed, out>>

\* .map(|i| 2 * i)
defining_double_first_map ==
    /\ At(DDF, "map")
    /\ IF IsOk(loc.r2)
       THEN /\ calls' = Append(calls, "closure |i| 2 * i")
            /\ Return(MulI32(2, loc.r2.val))
       ELSE Return(Err(loc.r2.err)) /\ UNCHANGED calls
    /\ UNCHANGED <<overflow_checks, fn, args, loc, parsed, out>>

\* print of other_uses_of_question_mark and defining_an_error_type
double_first_print ==
    /\ fn \in {ODF, DDF} /\ pc = "returned" /\ ~IsPanic(ret)
    /\ out' = IF IsOk(ret)
              THEN <<  <<"The first doubled is ", ret.val>>  >>
              ELSE <<  <<"Error: ", Display(ret.err)>>  >>
    /\ pc' = "printed"
    /\ UNCHANGED <<overflow_checks, fn, args, loc, ret, parsed, calls>>

----------------------------------------------------------------------------
(* combinators_and_then: have_recipe, have_ingredients, cookable_v1/v2/v3 *)

Foods == {"CordonBleu", "Steak", "Sushi"}

\* fn have_ingredients
have_ingredients(food) == IF food = "Sushi" THEN None ELSE Some(food)

\* fn have_recipe
have_recipe(food) == IF food = "CordonBleu" THEN None ELSE Some(food)

CV1 == "combinators_and_then::cookable_v1"
CV2 == "combinators_and_then::cookable_v2"
CV3 == "combinators_and_then::cookable_v3"

cookable_call(f) ==
    /\ Idle
    /\ \E food \in Foods : Enter(f, "have_recipe", [food |-> food])

\* have_recipe(food)
cookable_have_recipe(f, next) ==
    /\ At(f, "have_recipe")
    /\ calls' = Append(calls, "have_recipe")
    /\ Let("r", have_recipe(args.food))
    /\ pc' = next
    /\ UNCHANGED <<overflow_checks, fn, args, ret, parsed, out>>

cookable_v1_call == cookable_call(CV1)
cookable_v1_have_recipe == cookable_have_recipe(CV1, "match")

\* a match that answers with the recipe's food, ingredients unasked
cookable_v1_match_recipe_only ==
    /\ At(CV1, "match")
    /\ Return(loc.r)
    /\ UNCHANGED <<overflow_checks, fn, args, loc, parsed, calls, out>>

\* match have_recipe(food) { None => None, Some(food) => have_ingredients(food) }
cookable_v1_match ==
    /\ At(CV1, "match")
    /\ IF IsSome(loc.r)
       THEN /\ calls' = Append(calls, "have_ingredients")
            /\ Return(have_ingredients(loc.r.val))
       ELSE Return(None) /\ UNCHANGED calls
    /\ UNCHANGED <<overflow_checks, fn, args, loc, parsed, out>>

cookable_v3_call == cookable_call(CV3)
cookable_v3_have_recipe == cookable_have_recipe(CV3, "and_then")

\* an and_then that calls its function on None as well
cookable_v3_and_then_eager ==
    /\ At(CV3, "and_then")
    /\ calls' = Append(calls, "have_ingredients")
    /\ Return(IF IsSome(loc.r) THEN have_ingredients(loc.r.val) ELSE None)
    /\ UNCHANGED <<overflow_checks, fn, args, loc, parsed, out>>

\* .and_then(have_ingredients): have_ingredients is called only on Some
cookable_v3_and_then ==
    /\ At(CV3, "and_then")
    /\ IF IsSome(loc.r)
       THEN /\ calls' = Append(calls, "have_ingredients")
            /\ Return(have_ingredients(loc.r.val))
       ELSE Return(None) /\ UNCHANGED calls
    /\ UNCHANGED <<overflow_checks, fn, args, loc, parsed, out>>

cookable_v2_call == cookable_call(CV2)
cookable_v2_have_recipe == cookable_have_recipe(CV2, "map")

\* .map(have_ingredients): wraps the function's Option in Some
cookable_v2_map ==
    /\ At(CV2, "map")
    /\ IF IsSome(loc.r)
       THEN /\ calls' = Append(calls, "have_ingredients")
            /\ Let("m", Some(have_ingredients(loc.r.val)))
       ELSE Let("m", None) /\ UNCHANGED calls
    /\ pc' = "flatten"
    /\ UNCHANGED <<overflow_checks, fn, args, ret, parsed, out>>

\* .flatten(): removes one level of Option
cookable_v2_flatten ==
    /\ At(CV2, "flatten")
    /\ Return(IF IsSome(loc.m) THEN loc.m.val ELSE None)
    /\ UNCHANGED <<overflow_checks, fn, args, loc, parsed, calls, out>>

----------------------------------------------------------------------------
(* unpacking_options_with_question_mark: Person::work_phone_area_code, next_birthday *)

\* the `?` operator on an Option: continue with the payload, or return None
TryOption(o) ==
    IF IsSome(o)
    THEN [branch |-> "Continue", val |-> o.val]
    ELSE [branch |-> "Break", residual |-> None]

AreaCodes == {0, 61, 255}
Numbers == {439222222}

\* struct PhoneNumber, struct Job, struct Person
PhoneNumber(area_code, number) == [area_code |-> area_code, number |-> number]
Job(phone_number) == [phone_number |-> phone_number]
Person(job) == [job |-> job]

WPAC == "unpacking_options_with_question_mark::Person::work_phone_area_code"

work_phone_area_code_call ==
    /\ Idle
    /\ \E hasJob \in BOOLEAN, hasPhone \in BOOLEAN, hasArea \in BOOLEAN,
          c \in AreaCodes, n \in Numbers :
          LET area == IF hasArea THEN Some(c) ELSE None
              phone == IF hasPhone THEN Some(PhoneNumber(area, n)) ELSE None
              job == IF hasJob THEN Some(Job(phone)) ELSE None
          IN  Enter(WPAC, "job", [self |-> Person(job)])

\* self.job
work_phone_area_code_job ==
    /\ At(WPAC, "job")
    /\ calls' = Append(calls, "self.job")
    /\ Let("o1", args.self.job)
    /\ pc' = "try_job"
    /\ UNCHANGED <<overflow_checks, fn, args, ret, parsed, out>>

\* self.job?
work_phone_area_code_try_job ==
    /\ At(WPAC, "try_job")
    /\ LET t == TryOption(loc.o1)
       IN  IF t.branch = "Continue"
           THEN Let("job", t.val) /\ pc' = "phone_number" /\ UNCHANGED ret
           ELSE Return(t.residual) /\ UNCHANGED loc
    /\ UNCHANGED <<overflow_checks, fn, args, parsed, calls, out>>

\* .phone_number
work_phone_area_code_phone_number ==
    /\ At(WPAC, "phone_number")
    /\ calls' = Append(calls, ".phone_number")
    /\ Let("o2", loc.job.phone_number)
    /\ pc' = "try_phone_number"
    /\ UNCHANGED <<overflow_checks, fn, args, ret, parsed, out>>

\* a `?` that answers Some(0) where the phone number is missing
work_phone_area_code_try_phone_number_default ==
    /\ At(WPAC, "try_phone_number")
    /\ IF IsSome(loc.o2)
       THEN Let("phone_number", loc.o2.val) /\ pc' = "area_code" /\ UNCHANGED ret
       ELSE Return(Some(0)) /\ UNCHANGED loc
    /\ UNCHANGED <<overflow_checks, fn, args, parsed, calls, out>>

\* .phone_number?
work_phone_area_code_try_phone_number ==
    /\ At(WPAC, "try_phone_number")
    /\ LET t == TryOption(loc.o2)
       IN  IF t.branch = "Continue"
           THEN Let("phone_number", t.val) /\ pc' = "area_code" /\ UNCHANGED ret
           ELSE Return(t.residual) /\ UNCHANGED loc
    /\ UNCHANGED <<overflow_checks, fn, args, parsed, calls, out>>

\* .area_code
work_phone_area_code_area_code ==
    /\ At(WPAC, "area_code")
    /\ calls' = Append(calls, ".area_code")
    /\ Return(loc.phone_number.area_code)
    /\ UNCHANGED <<overflow_checks, fn, args, loc, parsed, out>>

NB == "unpacking_options_with_question_mark::next_birthday"

\* a + b on u8: panics under overflow checks, wraps otherwise
AddU8(a, b) ==
    IF a + b > U8Max
    THEN IF overflow_checks
         THEN Panic("attempt to add with overflow")
         ELSE Ok((a + b) % (U8Max + 1))
    ELSE Ok(a + b)

next_birthday_call ==
    /\ Idle
    /\ \/ Enter(NB, "try", [current_age |-> None])
       \/ \E a \in 0..U8Max : Enter(NB, "try", [current_age |-> Some(a)])

\* current_age?
next_birthday_try ==
    /\ At(NB, "try")
    /\ LET t == TryOption(args.current_age)
       IN  IF t.branch = "Continue"
           THEN Let("age", t.val) /\ pc' = "add" /\ UNCHANGED ret
           ELSE Return(t.residual) /\ UNCHANGED loc
    /\ UNCHANGED <<overflow_checks, fn, args, parsed, calls, out>>

\* let next_age: u8 = ... + 1;
next_birthday_add ==
    /\ At(NB, "add")
    /\ LET s == AddU8(loc.age, 1)
       IN  IF IsPanic(s)
           THEN Return(s) /\ UNCHANGED loc
           ELSE Let("next_age", s.val) /\ pc' = "format" /\ UNCHANGED ret
    /\ UNCHANGED <<overflow_checks, fn, args, parsed, calls, out>>

\* Some(format!("Next year I will be {}", next_age))
next_birthday_format ==
    /\ At(NB, "format")
    /\ calls' = Append(calls, "format!")
    /\ Return(Some(<<"Next year I will be ", loc.next_age>>))
    /\ UNCHANGED <<overflow_checks, fn, args, loc, parsed, out>>

----------------------------------------------------------------------------
(* combinators_map: cook, process *)

\* enum Food
Food == {"Apple", "Carrot", "Potato"}

\* struct Peeled(Food), struct Chopped(Food), struct Cooked(Food)
Peeled(food) == [type |-> "Peeled", food |-> food]
Chopped(food) == [type |-> "Chopped", food |-> food]
Cooked(food) == [type |-> "Cooked", food |-> food]

cook_call ==
    /\ Idle
    /\ \E present \in BOOLEAN, food \in Food :
        Enter("combinators_map::cook", "map",
              [chopped |-> IF present THEN Some(Chopped(food)) ELSE None])

\* a map that enters its closure on None as well
cook_map_eager ==
    /\ At("combinators_map::cook", "map")
    /\ calls' = Append(calls, "closure |Chopped(food)|")
    /\ Return(IF IsSome(args.chopped) THEN Some(Cooked(args.chopped.val.food)) ELSE None)
    /\ UNCHANGED <<overflow_checks, fn, args, loc, parsed, out>>

\* chopped.map(|Chopped(food)| Cooked(food))
cook_map ==
    /\ At("combinators_map::cook", "map")
    /\ IF IsSome(args.chopped)
       THEN /\ calls' = Append(calls, "closure |Chopped(food)|")
            /\ Return(Some(Cooked(args.chopped.val.food)))
       ELSE Return(None) /\ UNCHANGED calls
    /\ UNCHANGED <<overflow_checks, fn, args, loc, parsed, out>>

process_call ==
    /\ Idle
    /\ \E present \in BOOLEAN, food \in Food :
        LET o == IF present THEN Some(food) ELSE None
        IN  /\ fn' = "combinators_map::process" /\ pc' = "map_peeled"
            /\ args' = [food |-> o] /\ loc' = [m |-> o]
            /\ ret' = NoRet /\ parsed' = <<>> /\ calls' = <<>> /\ out' = <<>>
            /\ UNCHANGED overflow_checks

\* food.map(|f| Peeled(f)).map(|Peeled(f)| Chopped(f)).map(|Chopped(f)| Cooked(f)),
\* one map at a time; loc.m is the Option the next map receives
process_map ==
    /\ fn = "combinators_map::process"
    /\ pc \in {"map_peeled", "map_chopped", "map_cooked"}
    /\ LET m == IF IsSome(loc.m)
                THEN Some(CASE pc = "map_peeled" -> Peeled(loc.m.val)
                            [] pc = "map_chopped" -> Chopped(loc.m.val.food)
                            [] pc = "map_cooked" -> Cooked(loc.m.val.food))
                ELSE None
       IN  /\ calls' = IF IsSome(loc.m)
                       THEN Append(calls, CASE pc = "map_peeled" -> "closure |f|"
                                            [] pc = "map_chopped" -> "closure |Peeled(f)|"
                                            [] pc = "map_cooked" -> "closure |Chopped(f)|")
                       ELSE calls
           /\ IF pc = "map_cooked"
              THEN Return(m) /\ UNCHANGED loc
              ELSE /\ Let("m", m)
                   /\ pc' = IF pc = "map_peeled" THEN "map_chopped" ELSE "map_cooked"
                   /\ UNCHANGED ret
    /\ UNCHANGED <<overflow_checks, fn, args, parsed, out>>

----------------------------------------------------------------------------
(* unpacking_options_and_default: or, or_else, get_or_insert, get_or_insert_with *)

\* enum Fruit
Fruit == {"Apple", "Orange", "Banana", "Kiwi", "Lemon"}

\* Option<Fruit>; the blocks bind None, Some(Apple) and Some(Orange)
OptionFruit == {None} \cup {Some(f) : f \in Fruit}

\* an or that prefers its argument
Option_or_alt(a, b) == IF IsSome(b) THEN b ELSE a

\* Option::or
Option_or(a, b) == IF IsSome(a) THEN a ELSE b

or_call ==
    /\ Idle
    /\ \E no_fruit \in OptionFruit, orange \in OptionFruit, apple \in OptionFruit :
        /\ fn' = "unpacking_options_and_default::or" /\ pc' = "or_orange"
        /\ args' = [no_fruit |-> no_fruit, orange |-> orange, apple |-> apple]
        /\ loc' = [m |-> no_fruit]
        /\ ret' = NoRet /\ parsed' = <<>> /\ calls' = <<>> /\ out' = <<>>
        /\ UNCHANGED overflow_checks

\* no_fruit.or(orange).or(apple), one or at a time; loc.m is the receiver of the next or
or_chain ==
    /\ fn = "unpacking_options_and_default::or"
    /\ \/ /\ pc = "or_orange"
          /\ Let("m", Option_or(loc.m, args.orange))
          /\ pc' = "or_apple"
          /\ UNCHANGED ret
       \/ /\ pc = "or_apple"
          /\ Return(Option_or(loc.m, args.apple))
          /\ UNCHANGED loc
    /\ UNCHANGED <<overflow_checks, fn, args, parsed, calls, out>>

or_else_call ==
    /\ Idle
    /\ \E no_fruit \in OptionFruit :
        /\ fn' = "unpacking_options_and_default::or_else" /\ pc' = "or_else_kiwi"
        /\ args' = [no_fruit |-> no_fruit]
        /\ loc' = [m |-> no_fruit]
        /\ ret' = NoRet /\ parsed' = <<>> /\ calls' = <<>> /\ out' = <<>>
        /\ UNCHANGED overflow_checks

\* an or_else that runs its producer whatever the receiver is
or_else_chain_eager ==
    /\ fn = "unpacking_options_and_default::or_else"
    /\ pc \in {"or_else_kiwi", "or_else_lemon"}
    /\ LET kiwi == pc = "or_else_kiwi"
           m == IF IsSome(loc.m) THEN loc.m
                ELSE IF kiwi THEN Some("Kiwi") ELSE Some("Lemon")
       IN  /\ calls' = Append(calls, IF kiwi THEN "get_kiwi_as_fallback"
                                             ELSE "get_lemon_as_fallback")
           /\ out' = Append(out, IF kiwi THEN "Providing kiwi as fallback"
                                         ELSE "Providing lemon as fallback")
           /\ IF kiwi
              THEN Let("m", m) /\ pc' = "or_else_lemon" /\ UNCHANGED ret
              ELSE Return(m) /\ UNCHANGED loc
    /\ UNCHANGED <<overflow_checks, fn, args, parsed>>

\* no_fruit.or_else(get_kiwi_as_fallback).or_else(get_lemon_as_fallback), one or_else
\* at a time: the closure runs, prints and supplies its fruit only when the receiver
\* loc.m is None
or_else_chain ==
    /\ fn = "unpacking_options_and_default::or_else"
    /\ pc \in {"or_else_kiwi", "or_else_lemon"}
    /\ LET kiwi == pc = "or_else_kiwi"
           m == IF IsSome(loc.m) THEN loc.m
                ELSE IF kiwi THEN Some("Kiwi") ELSE Some("Lemon")
       IN  /\ IF IsSome(loc.m)
              THEN UNCHANGED <<calls, out>>
              ELSE /\ calls' = Append(calls, IF kiwi THEN "get_kiwi_as_fallback"
                                                    ELSE "get_lemon_as_fallback")
                   /\ out' = Append(out, IF kiwi THEN "Providing kiwi as fallback"
                                                ELSE "Providing lemon as fallback")
           /\ IF kiwi
              THEN Let("m", m) /\ pc' = "or_else_lemon" /\ UNCHANGED ret
              ELSE Return(m) /\ UNCHANGED loc
    /\ UNCHANGED <<overflow_checks, fn, args, parsed>>

\* calls of get_or_insert / get_or_insert_with followed on one variable
MaxInserts == 2

\* let mut my_fruit: Option<Fruit> (None in both blocks) / let mut my_apple (Some(Apple))
get_or_insert_call ==
    /\ Idle
    /\ \E my_fruit \in OptionFruit :
        /\ fn' = "unpacking_options_and_default::get_or_insert" /\ pc' = "block"
        /\ args' = [my_fruit |-> my_fruit]
        /\ loc' = [my_fruit |-> my_fruit, n |-> 0, method |-> "", given |-> "", got |-> ""]
        /\ ret' = NoRet /\ parsed' = <<>> /\ calls' = <<>> /\ out' = <<>>
        /\ UNCHANGED overflow_checks

\* a get_or_insert that stores its argument whatever the variable holds
get_or_insert_overwrite ==
    /\ At("unpacking_options_and_default::get_or_insert", "block")
    /\ loc.n < MaxInserts
    /\ \E apple \in Fruit :
        loc' = [loc EXCEPT !.my_fruit = Some(apple), !.n = @ + 1,
                           !.method = "get_or_insert", !.given = apple, !.got = apple]
    /\ UNCHANGED <<overflow_checks, fn, pc, args, ret, parsed, calls, out>>

\* my_fruit.get_or_insert(apple): stores Some(apple) if the variable is None; the
\* reference returned (loc.got) is to the value then held
get_or_insert ==
    /\ At("unpacking_options_and_default::get_or_insert", "block")
    /\ loc.n < MaxInserts
    /\ \E apple \in Fruit :
        LET stored == IF IsSome(loc.my_fruit) THEN loc.my_fruit ELSE Some(apple)
        IN  loc' = [loc EXCEPT !.my_fruit = stored, !.n = @ + 1,
                               !.method = "get_or_insert", !.given = apple,
                               !.got = stored.val]
    /\ UNCHANGED <<overflow_checks, fn, pc, args, ret, parsed, calls, out>>

\* a get_or_insert_with that runs its producer whatever the variable holds
get_or_insert_with_eager ==
    /\ At("unpacking_options_and_default::get_or_insert", "block")
    /\ loc.n < MaxInserts
    /\ LET stored == IF IsSome(loc.my_fruit) THEN loc.my_fruit ELSE Some("Lemon")
       IN  /\ calls' = Append(calls, "get_lemon_as_fallback")
           /\ out' = Append(out, "Providing lemon as fallback")
           /\ loc' = [loc EXCEPT !.my_fruit = stored, !.n = @ + 1,
                                 !.method = "get_or_insert_with", !.given = "Lemon",
                                 !.got = stored.val]
    /\ UNCHANGED <<overflow_checks, fn, pc, args, ret, parsed>>

\* my_fruit.get_or_insert_with(get_lemon_as_fallback): the closure runs, prints and
\* supplies Fruit::Lemon only if the variable is None
get_or_insert_with ==
    /\ At("unpacking_options_and_default::get_or_insert", "block")
    /\ loc.n < MaxInserts
    /\ IF IsSome(loc.my_fruit)
       THEN /\ loc' = [loc EXCEPT !.n = @ + 1, !.method = "get_or_insert_with",
                                  !.given = "", !.got = loc.my_fruit.val]
            /\ UNCHANGED <<calls, out>>
       ELSE /\ calls' = Append(calls, "get_lemon_as_fallback")
            /\ out' = Append(out, "Providing lemon as fallback")
            /\ loc' = [loc EXCEPT !.my_fruit = Some("Lemon"), !.n = @ + 1,
                                  !.method = "get_or_insert_with", !.given = "Lemon",
                                  !.got = "Lemon"]
    /\ UNCHANGED <<overflow_checks, fn, pc, args, ret, parsed>>

\* println!("my_fruit is: {:?}", my_fruit)
get_or_insert_print ==
    /\ At("unpacking_options_and_default::get_or_insert", "block")
    /\ out' = Append(out, <<"my_fruit is: ", loc.my_fruit>>)
    /\ pc' = "printed"
    /\ UNCHANGED <<overflow_checks, fn, args, loc, ret, parsed, calls>>

----------------------------------------------------------------------------
(* multiple_error_types::double_first and option_and_unwrap::drink: unwrap *)

unwrap_double_first_call ==
    /\ Idle
    /\ \E v \in Vecs : Enter("multiple_error_types::double_first", "first", [vec |-> v])

\* let first = vec.first().unwrap();
unwrap_double_first_first ==
    /\ At("multiple_error_types::double_first", "first")
    /\ calls' = Append(calls, "vec.first().unwrap()")
    /\ IF IsSome(First(args.vec))
       THEN Let("first", First(args.vec).val) /\ pc' = "parse" /\ UNCHANGED ret
       ELSE Return(Panic("called Option::unwrap() on a None value")) /\ UNCHANGED loc
    /\ UNCHANGED <<overflow_checks, fn, args, parsed, out>>

\* 2 * first.parse::<i32>().unwrap(): the unwrap comes before the multiplication
unwrap_double_first_parse ==
    /\ At("multiple_error_types::double_first", "parse")
    /\ parsed' = Append(parsed, loc.first)
    /\ LET r == Parse(loc.first)
       IN  IF IsOk(r)
           THEN /\ calls' = calls \o <<"first.parse::<i32>().unwrap()", "2 *">>
                /\ LET m == MulI32(2, r.val)
                   IN  Return(IF IsPanic(m) THEN m ELSE [tag |-> "i32", val |-> m.val])
           ELSE /\ calls' = Append(calls, "first.parse::<i32>().unwrap()")
                /\ Return(Panic("called Result::unwrap() on an Err value"))
    /\ UNCHANGED <<overflow_checks, fn, args, loc, out>>

drink_call ==
    /\ Idle
    /\ \E present \in BOOLEAN, inner \in {"coffee", "lemonade", "water"} :
        Enter("option_and_unwrap::drink", "unwrap",
              [drink |-> IF present THEN Some(inner) ELSE None])

\* let inside = drink.unwrap();
drink_unwrap ==
    /\ At("option_and_unwrap::drink", "unwrap")
    /\ calls' = Append(calls, "drink.unwrap()")
    /\ IF IsSome(args.drink)
       THEN Let("inside", args.drink.val) /\ pc' = "if" /\ UNCHANGED ret
       ELSE Return(Panic("called Option::unwrap() on a None value")) /\ UNCHANGED loc
    /\ UNCHANGED <<overflow_checks, fn, args, parsed, out>>

\* if inside == "lemonade" { panic!("AAAaaaaa!!!!"); } println!("I love {}s!!!!!", inside);
drink_if ==
    /\ At("option_and_unwrap::drink", "if")
    /\ IF loc.inside = "lemonade"
       THEN /\ calls' = Append(calls, "if inside == lemonade")
            /\ Return(Panic("AAAaaaaa!!!!"))
            /\ UNCHANGED out
       ELSE /\ calls' = calls \o <<"if inside == lemonade", "println!">>
            /\ out' = Append(out, <<"I love ", loc.inside, "s!!!!!">>)
            /\ Return([tag |-> "Unit"])
    /\ UNCHANGED <<overflow_checks, fn, args, loc, parsed>>

----------------------------------------------------------------------------
(* 21.Testing: divide_non_zero_result *)

\* largest generated operand of the division, besides those of the tests
MaxOperand == 4

\* the u32 operands: a range from 0, and the 10 of test_divide and test_specific_panic
Operands == (0..MaxOperand) \cup {10}

divide_non_zero_result_call ==
    /\ Idle
    /\ \E a \in Operands, b \in Operands :
        Enter("divide_non_zero_result", "if", [a |-> a, b |-> b])

\* a division that also refuses a quotient of one
divide_non_zero_result_body_strict ==
    /\ At("divide_non_zero_result", "if")
    /\ Return(IF args.b = 0 THEN Panic("Divide-by-zero error")
              ELSE IF args.a <= args.b THEN Panic("Divide result is zero")
              ELSE [tag |-> "u32", val |-> args.a \div args.b])
    /\ UNCHANGED <<overflow_checks, fn, args, loc, parsed, calls, out>>

\* if b == 0 { panic! } else if a < b { panic! } a / b
divide_non_zero_result_body ==
    /\ At("divide_non_zero_result", "if")
    /\ Return(IF args.b = 0 THEN Panic("Divide-by-zero error")
              ELSE IF args.a < args.b THEN Panic("Divide result is zero")
              ELSE [tag |-> "u32", val |-> args.a \div args.b])
    /\ UNCHANGED <<overflow_checks, fn, args, loc, parsed, calls, out>>

----------------------------------------------------------------------------
(* 17.macro_rules: op! and assert_equal_len!, giving add_assign, mul_assign, sub_assign *)

\* $bound::$method(*x, *y) for the three expansions of op!, with T an unsigned integer:
\* an out-of-range result panics under overflow checks and wraps otherwise. T is taken
\* as u8, whose range, unlike that of the tests' u32, lies inside the model's integers
ElemOp(func, x, y) ==
    CASE func = "add_assign" -> AddU8(x, y)
      [] func = "mul_assign" ->
            IF x * y > U8Max
            THEN IF overflow_checks
                 THEN Panic("attempt to multiply with overflow")
                 ELSE Ok((x * y) % (U8Max + 1))
            ELSE Ok(x * y)
      [] func = "sub_assign" ->
            IF x < y
            THEN IF overflow_checks
                 THEN Panic("attempt to subtract with overflow")
                 ELSE Ok(x - y + U8Max + 1)
            ELSE Ok(x - y)

\* fn $func(xs: &mut Vec<T>, ys: &Vec<T>); the tests pass 1, 2 and 3
op_call ==
    /\ Idle
    /\ \E func \in {"add_assign", "mul_assign", "sub_assign"},
          xs \in SeqsUpTo({2, 3, U8Max}, MaxVecLen), ys \in SeqsUpTo({2, 3, U8Max}, MaxVecLen) :
        /\ fn' = "macro_test::op" /\ pc' = "assert_equal_len"
        /\ args' = [func |-> func, xs |-> xs, ys |-> ys]
        /\ loc' = [xs |-> xs, ys |-> ys, i |-> 0]
        /\ ret' = NoRet /\ parsed' = <<>> /\ calls' = <<>> /\ out' = <<>>
        /\ UNCHANGED overflow_checks

\* an expansion that asserts nothing
assert_equal_len_lenient ==
    /\ At("macro_test::op", "assert_equal_len")
    /\ pc' = "for"
    /\ UNCHANGED <<overflow_checks, fn, args, loc, ret, parsed, calls, out>>

\* assert_equal_len!(xs, ys, $func, $op)
assert_equal_len ==
    /\ At("macro_test::op", "assert_equal_len")
    /\ IF Len(loc.xs) = Len(loc.ys)
       THEN pc' = "for" /\ UNCHANGED ret
       ELSE Return(Panic(<<args.func, "dimension mismatch", Len(loc.xs), Len(loc.ys)>>))
    /\ UNCHANGED <<overflow_checks, fn, args, loc, parsed, calls, out>>

\* for (x, y) in xs.iter_mut().zip(ys.iter()) { *x = $bound::$method(*x, *y); },
\* one iteration at a time; the zip ends with the shorter vector
op_for ==
    /\ At("macro_test::op", "for")
    /\ IF loc.i < Len(loc.xs) /\ loc.i < Len(loc.ys)
       THEN LET r == ElemOp(args.func, loc.xs[loc.i + 1], loc.ys[loc.i + 1])
            IN  IF IsPanic(r)
                THEN Return(r) /\ UNCHANGED loc
                ELSE /\ loc' = [loc EXCEPT !.xs[loc.i + 1] = r.val, !.i = @ + 1]
                     /\ UNCHANGED <<pc, ret>>
       ELSE Return([tag |-> "Unit"]) /\ UNCHANGED loc
    /\ UNCHANGED <<overflow_checks, fn, args, parsed, calls, out>>

----------------------------------------------------------------------------
(* main: the demonstrations it calls, in order *)

\* the calls in the body of main that are not commented out
Demonstrations ==
    << "unpacking_options_with_question_mark", "combinators_map", "combinators_and_then",
       "unpacking_options_and_default", "result", "using_result_in_main",
       "map_for_result", "aliases_for_result", "eraly_result",
       "intorducing_question_mark", "multiple_error_types",
       "pulling_results_out_of_options", "defining_an_error_type", "boxing_errors",
       "other_uses_of_question_mark", "wrapping_errors", "iterating_over_results" >>

\* whether demonstration d aborts: decided by the unwrap and assert_eq! calls in its
\* body, on the values the body passes; the other bodies hold no aborting operation
\* (iterating_over_results unwraps only what partition sorted as Ok, and unwrap_errs
\* only what it sorted as Err)
DemoAborts(d) ==
    CASE d = "unpacking_options_with_question_mark" ->
            \* assert_eq!(p.work_phone_area_code(), Some(61))
            LET p == Person(Some(Job(Some(PhoneNumber(Some(61), 439222222)))))
            IN  p.job.val.phone_number.val.area_code # Some(61)
      [] d = "result" ->
            \* multiply("10", "2"): both parses are unwrapped
            IsErr(Parse(<<"1", "0">>)) \/ IsErr(Parse(<<"2">>))
      [] d = "multiple_error_types" ->
            \* double_first(numbers), double_first(empty), double_first(strings):
            \* vec.first().unwrap(), then first.parse::<i32>().unwrap()
            \E vec \in { << <<"4", "2">>, <<"9", "3">>, <<"1", "8">> >>,
                         <<>>,
                         << <<"t", "o", "f", "u">>, <<"9", "3">>, <<"1", "8">> >> } :
                \/ ~IsSome(First(vec))
                \/ IsErr(Parse(First(vec).val))
      [] OTHER -> FALSE

main_call ==
    /\ Idle
    /\ fn' = "main" /\ pc' = "demonstration"
    /\ args' = <<>> /\ loc' = [i |-> 1]
    /\ ret' = NoRet /\ parsed' = <<>> /\ calls' = <<>> /\ out' = <<>>
    /\ UNCHANGED overflow_checks

\* the next call of main's body: an abort inside it ends the process, otherwise main
\* goes on to the call after it and returns after the last
main_demonstration ==
    /\ At("main", "demonstration")
    /\ calls' = Append(calls, Demonstrations[loc.i])
    /\ IF DemoAborts(Demonstrations[loc.i])
       THEN Return(Panic("aborted in " \o Demonstrations[loc.i])) /\ UNCHANGED loc
       ELSE IF loc.i = Len(Demonstrations)
            THEN Return([tag |-> "Unit"]) /\ UNCHANGED loc
            ELSE loc' = [loc EXCEPT !.i = @ + 1] /\ UNCHANGED <<pc, ret>>
    /\ UNCHANGED <<overflow_checks, fn, args, parsed, out>>

----------------------------------------------------------------------------
(* iterating_over_results: collect into Result<Vec<_>, _> *)

collect_call ==
    /\ Idle
    /\ \E strings \in Vecs :
        /\ fn' = "iterating_over_results::collect" /\ pc' = "next"
        /\ args' = [strings |-> strings] /\ loc' = [i |-> 0, numbers |-> <<>>]
        /\ ret' = NoRet /\ parsed' = <<>> /\ calls' = <<>> /\ out' = <<>>
        /\ UNCHANGED overflow_checks

\* a collect that parses on after an Err and reports the first one at the end
collect_next_exhaustive ==
    /\ At("iterating_over_results::collect", "next")
    /\ IF loc.i < Len(args.strings)
       THEN LET r == Parse(args.strings[loc.i + 1])
            IN  /\ parsed' = Append(parsed, args.strings[loc.i + 1])
                /\ loc' = IF IsOk(r) THEN [loc EXCEPT !.i = @ + 1, !.numbers = Append(@, r.val)]
                          ELSE (("err" :> r.err) @@ [loc EXCEPT !.i = @ + 1])
                /\ UNCHANGED <<pc, ret>>
       ELSE /\ Return(IF "err" \in DOMAIN loc THEN Err(loc.err) ELSE Ok(loc.numbers))
            /\ UNCHANGED <<loc, parsed>>
    /\ UNCHANGED <<overflow_checks, fn, args, calls, out>>

\* strings.into_iter().map(|s| s.parse::<i32>()).collect::<Result<Vec<_>, _>>(): collect
\* pulls one element at a time through the map; the first Err ends the iteration and is
\* the result, otherwise the result is Ok of the values gathered
collect_next ==
    /\ At("iterating_over_results::collect", "next")
    /\ IF loc.i < Len(args.strings)
       THEN LET r == Parse(args.strings[loc.i + 1])
            IN  /\ parsed' = Append(parsed, args.strings[loc.i + 1])
                /\ IF IsOk(r)
                   THEN /\ loc' = [loc EXCEPT !.i = @ + 1, !.numbers = Append(@, r.val)]
                        /\ UNCHANGED <<pc, ret>>
                   ELSE Return(Err(r.err)) /\ UNCHANGED loc
       ELSE Return(Ok(loc.numbers)) /\ UNCHANGED <<loc, parsed>>
    /\ UNCHANGED <<overflow_checks, fn, args, calls, out>>

----------------------------------------------------------------------------
(* 20.Std misc: channels *)

NTHREADS == 3

\* the sender threads' ids: for id in 0..NTHREADS
ThreadIds == 0..(NTHREADS - 1)

\* entry of channels(): the channel is empty, no thread is spawned, ids is empty.
\* loc.thread[id] is where child id stands, loc.queue the messages in the channel
ChannelsInit ==
    /\ overflow_checks \in BOOLEAN
    /\ fn = "channels" /\ pc = "spawn" /\ args = <<>>
    /\ loc = [spawned |-> 0, thread |-> [id \in ThreadIds |-> "unspawned"],
              queue |-> <<>>, ids |-> <<>>, joined |-> 0]
    /\ ret = NoRet /\ parsed = <<>> /\ calls = <<>> /\ out = <<>>

\* for id in 0..NTHREADS { let thread_tx = tx.clone(); children.push(thread::spawn(..)) }
channels_spawn ==
    /\ At("channels", "spawn")
    /\ IF loc.spawned < NTHREADS
       THEN /\ loc' = [loc EXCEPT !.thread[loc.spawned] = "spawned", !.spawned = @ + 1]
            /\ UNCHANGED pc
       ELSE pc' = "recv" /\ UNCHANGED loc
    /\ UNCHANGED <<overflow_checks, fn, args, ret, parsed, calls, out>>

\* a send whose message never reaches the channel
channels_send_lost(id) ==
    /\ fn = "channels" /\ loc.thread[id] = "spawned"
    /\ loc' = [loc EXCEPT !.thread[id] = "sent"]
    /\ UNCHANGED <<overflow_checks, fn, pc, args, ret, parsed, calls, out>>

\* child id: thread_tx.send(id).unwrap(); the channel is unbounded and main holds rx
\* until it returns, so the send neither blocks nor fails
channels_send(id) ==
    /\ fn = "channels" /\ loc.thread[id] = "spawned"
    /\ loc' = [loc EXCEPT !.thread[id] = "sent", !.queue = Append(@, id)]
    /\ UNCHANGED <<overflow_checks, fn, pc, args, ret, parsed, calls, out>>

\* child id: the closure returns and the thread ends
channels_exit(id) ==
    /\ fn = "channels" /\ loc.thread[id] = "sent"
    /\ loc' = [loc EXCEPT !.thread[id] = "exited"]
    /\ UNCHANGED <<overflow_checks, fn, pc, args, ret, parsed, calls, out>>

\* for _ in 0..NTHREADS { ids.push(rx.recv().unwrap()); }: recv blocks while the
\* channel is empty (main's own tx keeps the channel connected)
channels_recv ==
    /\ At("channels", "recv")
    /\ IF Len(loc.ids) < NTHREADS
       THEN /\ loc.queue # <<>>
            /\ loc' = [loc EXCEPT !.ids = Append(@, Head(loc.queue)), !.queue = Tail(@)]
            /\ UNCHANGED pc
       ELSE pc' = "join" /\ UNCHANGED loc
    /\ UNCHANGED <<overflow_checks, fn, args, ret, parsed, calls, out>>

\* for child in children { child.join().expect(..) }, in spawn order, each join
\* blocking until that child has ended; then println!("{:?}", ids) and the return
channels_join ==
    /\ At("channels", "join")
    /\ IF loc.joined < NTHREADS
       THEN /\ loc.thread[loc.joined] = "exited"
            /\ loc' = [loc EXCEPT !.joined = @ + 1]
            /\ UNCHANGED <<pc, ret, out>>
       ELSE /\ out' = Append(out, loc.ids)
            /\ Return([tag |-> "Unit"])
            /\ UNCHANGED loc
    /\ UNCHANGED <<overflow_checks, fn, args, parsed, calls>>

ChannelsNext ==
    \/ channels_spawn
    \/ \E id \in ThreadIds : channels_send(id)
    \/ \E id \in ThreadIds : channels_exit(id)
    \/ channels_recv
    \/ channels_join

\* every thread that can run is eventually scheduled: main, and each child
ChannelsSpec ==
    /\ ChannelsInit /\ [][ChannelsNext]_vars
    /\ WF_vars(channels_spawn \/ channels_recv \/ channels_join)
    /\ \A id \in ThreadIds : WF_vars(channels_send(id) \/ channels_exit(id))

----------------------------------------------------------------------------
(* 20.Std misc: thread_test_case_map_reduce *)

\* let data = "...": the characters of the literal, eight lines of digits
\* separated by a newline and the indentation of the source
data ==
    << "8", "6", "9", "6", "7", "8", "9", "7", "7", "3", "7", "4", "1", "6", "4", "7",
       "1", "8", "5", "3", "2", "9", "7", "3", "2", "7", "0", "5", "0", "3", "6", "4",
       "9", "5", "9", "\n", " ", " ", " ", " ", "1", "1", "8", "6", "1", "3", "2", "2",
       "5", "7", "5", "5", "6", "4", "7", "2", "3", "9", "6", "3", "2", "9", "7", "5",
       "4", "2", "6", "2", "4", "9", "6", "2", "8", "5", "0", "\n", " ", " ", " ", " ",
       "7", "0", "8", "5", "6", "2", "3", "4", "7", "0", "1", "8", "6", "0", "8", "5",
       "1", "9", "0", "7", "9", "6", "0", "6", "9", "0", "0", "1", "4", "7", "2", "5",
       "6", "3", "9", "\n", " ", " ", " ", " ", "3", "8", "3", "9", "7", "9", "6", "6",
       "7", "0", "7", "1", "0", "6", "0", "9", "4", "1", "7", "2", "7", "8", "3", "2",
       "3", "8", "7", "4", "7", "6", "6", "9", "2", "1", "9", "\n", " ", " ", " ", " ",
       "5", "2", "3", "8", "0", "7", "9", "5", "2", "5", "7", "8", "8", "8", "2", "3",
       "6", "5", "2", "5", "4", "5", "9", "3", "0", "3", "3", "3", "0", "3", "0", "2",
       "8", "3", "7", "\n", " ", " ", " ", " ", "5", "8", "4", "9", "5", "3", "2", "7",
       "1", "3", "5", "7", "4", "4", "0", "4", "1", "0", "4", "8", "8", "9", "7", "8",
       "8", "5", "7", "3", "4", "2", "9", "7", "8", "1", "2", "\n", " ", " ", " ", " ",
       "6", "9", "9", "2", "0", "2", "1", "6", "4", "3", "8", "9", "8", "0", "8", "7",
       "3", "5", "4", "8", "8", "0", "8", "4", "1", "3", "7", "2", "0", "9", "5", "6",
       "5", "3", "2", "\n", " ", " ", " ", " ", "1", "6", "2", "7", "8", "4", "2", "4",
       "6", "3", "7", "4", "5", "2", "5", "8", "9", "8", "6", "0", "3", "4", "5", "3",
       "7", "4", "8", "2", "8", "5", "7", "4", "6", "6", "8" >>

\* char::is_whitespace, for the characters a literal can hold here
is_whitespace(c) == c \in {" ", "\n", "\t"}

\* str::split_whitespace: the maximal runs of non-whitespace characters of s,
\* in the order of their first characters; empty pieces are never yielded
split_whitespace(s) ==
    LET starts == {i \in 1..Len(s) :
                      /\ ~is_whitespace(s[i])
                      /\ (i = 1 \/ is_whitespace(s[i - 1]))}
        last(i) == CHOOSE j \in i..Len(s) :
                      /\ \A k \in i..j : ~is_whitespace(s[k])
                      /\ (j = Len(s) \/ is_whitespace(s[j + 1]))
        nth(n) == CHOOSE i \in starts :
                      Cardinality({m \in starts : m < i}) = n - 1
    IN  [n \in 1..Cardinality(starts) |-> SubSeq(s, nth(n), last(nth(n)))]

RECURSIVE chars_sum(_, _)
\* line.chars().map(|f| f.to_digit(10).expect(..)).sum() over line[i..]: the
\* u32 sum of the digits, or the panic of expect at the first non-digit
chars_sum(line, i) ==
    IF i > Len(line) THEN [tag |-> "u32", val |-> 0]
    ELSE IF line[i] \notin Digits THEN Panic("expect: must be a string of digits")
    ELSE LET rest == chars_sum(line, i + 1)
         IN  IF IsPanic(rest) THEN rest
             ELSE [tag |-> "u32", val |-> DigitVal(line[i]) + rest.val]

\* the call: data is split, children is empty, no thread exists yet
map_reduce_call ==
    /\ Idle
    /\ fn' = "thread_test_case_map_reduce" /\ pc' = "spawn" /\ args' = <<>>
    /\ loc' = [lines |-> split_whitespace(data),
               children |-> <<>>, joined |-> 0, sum |-> 0]
    /\ ret' = NoRet /\ parsed' = <<>> /\ calls' = <<>> /\ out' = <<>>
    /\ UNCHANGED overflow_checks

\* for line in data.split_whitespace() { children.push(thread::spawn(move || ..)) }:
\* one thread per line, owning that line alone
map_reduce_spawn ==
    /\ At("thread_test_case_map_reduce", "spawn")
    /\ IF Len(loc.children) < Len(loc.lines)
       THEN /\ loc' = [loc EXCEPT !.children =
                          Append(@, [tag |-> "running",
                                     line |-> loc.lines[Len(loc.children) + 1]])]
            /\ UNCHANGED pc
       ELSE /\ pc' = "join"
            /\ UNCHANGED loc
    /\ UNCHANGED <<overflow_checks, fn, args, ret, parsed, calls, out>>

\* a join that takes whatever the child has produced so far, without waiting
map_reduce_join_no_wait ==
    /\ At("thread_test_case_map_reduce", "join")
    /\ IF loc.joined < Len(loc.children)
       THEN LET child == loc.children[loc.joined + 1]
            IN  /\ loc' = [loc EXCEPT !.joined = @ + 1,
                                      !.sum = IF child.tag = "u32"
                                              THEN @ + child.val ELSE @]
                /\ UNCHANGED <<pc, ret, out>>
       ELSE /\ out' = Append(out, <<"thread testcase: sum result ", loc.sum>>)
            /\ Return([tag |-> "Unit"])
            /\ UNCHANGED loc
    /\ UNCHANGED <<overflow_checks, fn, args, parsed, calls>>

\* children.into_iter().map(|f| f.join().unwrap()).sum::<u32>(), then the
\* println!: each join blocks until that child has ended, in spawn order, and
\* unwrap passes a child's panic on
map_reduce_join ==
    /\ At("thread_test_case_map_reduce", "join")
    /\ IF loc.joined < Len(loc.children)
       THEN LET child == loc.children[loc.joined + 1]
            IN  /\ child.tag # "running"
                /\ IF IsPanic(child)
                   THEN /\ Return(child)
                        /\ UNCHANGED <<loc, out>>
                   ELSE /\ loc' = [loc EXCEPT !.joined = @ + 1,
                                              !.sum = @ + child.val]
                        /\ UNCHANGED <<pc, ret, out>>
       ELSE /\ out' = Append(out, <<"thread testcase: sum result ", loc.sum>>)
            /\ Return([tag |-> "Unit"])
            /\ UNCHANGED loc
    /\ UNCHANGED <<overflow_checks, fn, args, parsed, calls>>

\* the closure of one spawned thread, run at any time after its spawn: it sums
\* the line it owns and ends with that value
map_reduce_child ==
    /\ fn = "thread_test_case_map_reduce"
    /\ pc \in {"spawn", "join"}
    /\ \E i \in 1..Len(loc.children) :
          /\ loc.children[i].tag = "running"
          /\ loc' = [loc EXCEPT !.children[i] = chars_sum(@.line, 1)]
    /\ UNCHANGED <<overflow_checks, fn, pc, args, ret, parsed, calls, out>>

----------------------------------------------------------------------------
(* 12.Cargo, 12.3 Testing: the tests test_file and test_file_also, run by the
   test harness on two threads.  ferris.txt is the sequence of its lines, or
   None while it does not exist; a file opened with append(true) writes every
   buffer at the end of the file in one step. *)

\* for _ in 0..5, in test_file and in test_file_also
test_file_writes == 5
test_file_also_writes == 5

\* the harness starts both tests; on disk there is no file, or the file some
\* earlier run left
tests_call ==
    /\ Idle
    /\ \E before \in {None, Some(<<>>), Some(<<"Ferris", "Corro">>),
                      Some(<<"Corro", "Ferris">>)} :
          /\ fn' = "tests" /\ pc' = "running" /\ args' = <<before>>
          /\ loc' = [ferris_txt |-> before,
                     test_file |-> [at |-> "open", i |-> 0],
                     test_file_also |-> [at |-> "open", i |-> 0]]
    /\ ret' = NoRet /\ parsed' = <<>> /\ calls' = <<>> /\ out' = <<>>
    /\ UNCHANGED overflow_checks

\* OpenOptions::new().append(true).create(true).open("ferris.txt"): the file
\* is created empty if it does not exist, and is left as it is otherwise
test_file_open ==
    /\ At("tests", "running")
    /\ loc.test_file.at = "open"
    /\ loc' = [loc EXCEPT !.test_file.at = "write",
                          !.ferris_txt = IF IsSome(@) THEN @ ELSE Some(<<>>)]
    /\ UNCHANGED <<overflow_checks, fn, pc, args, ret, parsed, calls, out>>

\* a write through a file opened without append(true): at the handle's own
\* position, which starts at 0 and advances by what the handle wrote
test_file_write_at_position ==
    /\ At("tests", "running")
    /\ loc.test_file.at = "write"
    /\ LET i == loc.test_file.i + 1
           lines == loc.ferris_txt.val
           written == IF i <= Len(lines) THEN [lines EXCEPT ![i] = "Ferris"]
                      ELSE Append(lines, "Ferris")
       IN  /\ loc' = [loc EXCEPT
                         !.ferris_txt = Some(written),
                         !.test_file = [at |-> IF i = test_file_writes
                                               THEN "ok" ELSE "write",
                                        i |-> i]]
           /\ IF i = test_file_writes /\ loc.test_file_also.at = "ok"
              THEN Return([tag |-> "Unit"])
              ELSE UNCHANGED <<pc, ret>>
    /\ UNCHANGED <<overflow_checks, fn, args, parsed, calls, out>>

\* one turn of for _ in 0..5 { file.write_all("Ferris\n".as_bytes()) }; after
\* the last turn the test ends, and the harness ends with its last test
test_file_write ==
    /\ At("tests", "running")
    /\ loc.test_file.at = "write"
    /\ LET i == loc.test_file.i + 1
       IN  /\ loc' = [loc EXCEPT
                         !.ferris_txt = Some(Append(@.val, "Ferris")),
                         !.test_file = [at |-> IF i = test_file_writes
                                               THEN "ok" ELSE "write",
                                        i |-> i]]
           /\ IF i = test_file_writes /\ loc.test_file_also.at = "ok"
              THEN Return([tag |-> "Unit"])
              ELSE UNCHANGED <<pc, ret>>
    /\ UNCHANGED <<overflow_checks, fn, args, parsed, calls, out>>

\* as test_file_open, by the other test
test_file_also_open ==
    /\ At("tests", "running")
    /\ loc.test_file_also.at = "open"
    /\ loc' = [loc EXCEPT !.test_file_also.at = "write",
                          !.ferris_txt = IF IsSome(@) THEN @ ELSE Some(<<>>)]
    /\ UNCHANGED <<overflow_checks, fn, pc, args, ret, parsed, calls, out>>

\* one turn of for _ in 0..5 { file.write_all("Corro\n".as_bytes()) }
test_file_also_write ==
    /\ At("tests", "running")
    /\ loc.test_file_also.at = "write"
    /\ LET i == loc.test_file_also.i + 1
       IN  /\ loc' = [loc EXCEPT
                         !.ferris_txt = Some(Append(@.val, "Corro")),
                         !.test_file_also = [at |-> IF i = test_file_also_writes
                                                    THEN "ok" ELSE "write",
                                             i |-> i]]
           /\ IF i = test_file_also_writes /\ loc.test_file.at = "ok"
              THEN Return([tag |-> "Unit"])
              ELSE UNCHANGED <<pc, ret>>
    /\ UNCHANGED <<overflow_checks, fn, args, parsed, calls, out>>

----------------------------------------------------------------------------
(* 19.Std Library types: rc_.  box is the allocation an Rc points to: its
   strong count and the value, None once the value has been dropped; handles
   is the set of Rc variables in scope. *)

\* let rc_examples = "Rc examples".to_string(), and the first println!
rc_call ==
    /\ Idle
    /\ fn' = "rc_" /\ pc' = "new" /\ args' = <<>>
    /\ loc' = [rc_examples |-> Some(<<"R", "c", " ", "e", "x", "a", "m", "p", "l", "e", "s">>),
               box |-> None, handles |-> {}]
    /\ out' = <<"--- rc_a is created ---">>
    /\ ret' = NoRet /\ parsed' = <<>> /\ calls' = <<>>
    /\ UNCHANGED overflow_checks

\* let rc_a = Rc::new(rc_examples): the string moves into a new allocation
\* with strong count 1; then the count is printed, and the next banner
rc_new ==
    /\ At("rc_", "new")
    /\ LET box == [strong |-> 1, value |-> loc.rc_examples]
       IN  /\ loc' = [rc_examples |-> None, box |-> Some(box), handles |-> {"rc_a"}]
           /\ out' = out \o << <<"Reference Count of rc_a: ", box.strong>>,
                               "--- rc_a is cloned to rc_b ---" >>
    /\ pc' = "clone"
    /\ UNCHANGED <<overflow_checks, fn, args, ret, parsed, calls>>

\* a clone that makes a second handle without touching the count
rc_clone_uncounted ==
    /\ At("rc_", "clone")
    /\ LET box == loc.box.val
       IN  /\ loc' = [loc EXCEPT !.handles = @ \cup {"rc_b"}]
           /\ out' = out \o << <<"Reference Count of rc_b: ", box.strong>>,
                               <<"Reference Count of rc_a: ", box.strong>>,
                               <<"rc_a and rc_b are equal: ", box.value = box.value>>,
                               <<"Length of the value inside rc_a: ", Len(box.value.val)>>,
                               <<"Value of rc_b: ", box.value.val>>,
                               "--- rc_b is dropped out of scope ---" >>
    /\ pc' = "drop rc_b"
    /\ UNCHANGED <<overflow_checks, fn, args, ret, parsed, calls>>

\* let rc_b = Rc::clone(&rc_a): a second handle to the same allocation, whose
\* strong count goes up by one; then the inner block's printing, where both
\* handles read the one count and the one value
rc_clone ==
    /\ At("rc_", "clone")
    /\ LET box == [loc.box.val EXCEPT !.strong = @ + 1]
       IN  /\ loc' = [loc EXCEPT !.box = Some(box), !.handles = @ \cup {"rc_b"}]
           /\ out' = out \o << <<"Reference Count of rc_b: ", box.strong>>,
                               <<"Reference Count of rc_a: ", box.strong>>,
                               <<"rc_a and rc_b are equal: ", box.value = box.value>>,
                               <<"Length of the value inside rc_a: ", Len(box.value.val)>>,
                               <<"Value of rc_b: ", box.value.val>>,
                               "--- rc_b is dropped out of scope ---" >>
    /\ pc' = "drop rc_b"
    /\ UNCHANGED <<overflow_checks, fn, args, ret, parsed, calls>>

\* the end of the inner block drops rc_b: the strong count goes down by one,
\* and the value is dropped if that makes it 0; then the count is printed
\* through rc_a, and the last banner
rc_drop_rc_b ==
    /\ At("rc_", "drop rc_b")
    /\ LET strong == loc.box.val.strong - 1
           box == [strong |-> strong,
                   value |-> IF strong = 0 THEN None ELSE loc.box.val.value]
       IN  /\ loc' = [loc EXCEPT !.box = Some(box), !.handles = @ \ {"rc_b"}]
           /\ out' = out \o << <<"Reference Count of rc_a: ", box.strong>>,
                               "--- rc_a is dropped out of scope ---" >>
    /\ pc' = "drop rc_a"
    /\ UNCHANGED <<overflow_checks, fn, args, ret, parsed, calls>>

\* the end of the outer block drops rc_a, in the same way; rc_ returns
rc_drop_rc_a ==
    /\ At("rc_", "drop rc_a")
    /\ LET strong == loc.box.val.strong - 1
           box == [strong |-> strong,
                   value |-> IF strong = 0 THEN None ELSE loc.box.val.value]
       IN  loc' = [loc EXCEPT !.box = Some(box), !.handles = @ \ {"rc_a"}]
    /\ Return([tag |-> "Unit"])
    /\ UNCHANGED <<overflow_checks, fn, args, parsed, calls, out>>

----------------------------------------------------------------------------
(* The specification *)

\* the call is over: drop its frame
Finish ==
    /\ fn # "idle"
    /\ pc \in {"returned", "printed"}
    /\ fn' = "idle" /\ pc' = "idle" /\ args' = <<>>
    /\ loc' = <<>> /\ ret' = NoRet /\ parsed' = <<>> /\ calls' = <<>> /\ out' = <<>>
    /\ UNCHANGED overflow_checks

Init ==
    /\ overflow_checks \in BOOLEAN
    /\ fn = "idle" /\ pc = "idle" /\ args = <<>>
    /\ loc = <<>> /\ ret = NoRet /\ parsed = <<>> /\ calls = <<>> /\ out = <<>>

Next ==
    \/ multiply_with_match_call
    \/ multiply_with_match_first
    \/ multiply_with_match_second
    \/ multiply_with_combinators_call
    \/ multiply_with_combinators_parse_first
    \/ multiply_with_combinators_and_then
    \/ multiply_with_combinators_parse_second
    \/ multiply_with_combinators_map
    \/ aliases_multiply_call
    \/ aliases_multiply_parse_first
    \/ aliases_multiply_and_then
    \/ aliases_multiply_parse_second
    \/ aliases_multiply_map
    \/ eraly_result_multiply_call
    \/ eraly_result_multiply_first
    \/ eraly_result_multiply_second
    \/ eraly_result_multiply_ok
    \/ question_mark_multiply_call
    \/ question_mark_multiply_parse_first
    \/ question_mark_multiply_try_first
    \/ question_mark_multiply_parse_second
    \/ question_mark_multiply_try_second
    \/ question_mark_multiply_ok
    \/ multiply_print
    \/ wrapping_double_first_call
    \/ wrapping_double_first_first
    \/ wrapping_double_first_try_first
    \/ wrapping_double_first_parse
    \/ wrapping_double_first_try_parse
    \/ wrapping_double_first_ok
    \/ wrapping_print
    \/ boxing_double_first_call
    \/ boxing_double_first_first
    \/ boxing_double_first_ok_or_else
    \/ boxing_double_first_and_then
    \/ boxing_double_first_parse
    \/ boxing_double_first_map_err
    \/ boxing_double_first_map
    \/ boxing_print
    \/ other_uses_double_first_call
    \/ other_uses_double_first_first
    \/ other_uses_double_first_try_first
    \/ other_uses_double_first_parse
    \/ other_uses_double_first_try_parse
    \/ other_uses_double_first_ok
    \/ defining_double_first_call
    \/ defining_double_first_first
    \/ defining_double_first_and_then
    \/ defining_double_first_parse
    \/ defining_double_first_map_err
    \/ defining_double_first_map
    \/ double_first_print
    \/ cookable_v1_call
    \/ cookable_v1_have_recipe
    \/ cookable_v1_match
    \/ cookable_v2_call
    \/ cookable_v2_have_recipe
    \/ cookable_v2_map
    \/ cookable_v2_flatten
    \/ cookable_v3_call
    \/ cookable_v3_have_recipe
    \/ cookable_v3_and_then
    \/ work_phone_area_code_call
    \/ work_phone_area_code_job
    \/ work_phone_area_code_try_job
    \/ work_phone_area_code_phone_number
    \/ work_phone_area_code_try_phone_number
    \/ work_phone_area_code_area_code
    \/ next_birthday_call
    \/ next_birthday_try
    \/ next_birthday_add
    \/ next_birthday_format
    \/ cook_call
    \/ cook_map
    \/ process_call
    \/ process_map
    \/ or_call
    \/ or_chain
    \/ or_else_call
    \/ or_else_chain
    \/ get_or_insert_call
    \/ get_or_insert
    \/ get_or_insert_with
    \/ get_or_insert_print
    \/ unwrap_double_first_call
    \/ unwrap_double_first_first
    \/ unwrap_double_first_parse
    \/ drink_call
    \/ drink_unwrap
    \/ drink_if
    \/ divide_non_zero_result_call
    \/ divide_non_zero_result_body
    \/ op_call
    \/ assert_equal_len
    \/ op_for
    \/ main_call
    \/ main_demonstration
    \/ collect_call
    \/ collect_next
    \/ map_reduce_call
    \/ map_reduce_spawn
    \/ map_reduce_child
    \/ map_reduce_join
    \/ tests_call
    \/ test_file_open
    \/ test_file_write
    \/ test_file_also_open
    \/ test_file_also_write
    \/ rc_call
    \/ rc_new
    \/ rc_clone
    \/ rc_drop_rc_b
    \/ rc_drop_rc_a
    \/ Finish

Spec == Init /\ [][Next]_vars

----------------------------------------------------------------------------
(* Properties *)

Done == pc \in {"returned", "printed"}
Range(q) == {q[i] : i \in 1..Len(q)}

\* the nodes met by following source() from e, at most n links
RECURSIVE Chain(_, _)
Chain(e, n) ==
    IF n = 0 \/ ~IsSome(Source(e))
    THEN <<e>>
    ELSE <<e>> \o Chain(Source(e).val, n - 1)

\* C1: in the `?` multiply, when the first string does not parse, the call returns
\* Err of the first string's parse error and never hands the second string to parse
C1_QuestionMarkStopsAtFirstFailure ==
    (fn = QM /\ IsErr(Parse(args.first_number_str))) =>
        /\ Len(parsed) <= 1
        /\ pc \notin {"parse_second", "try_second", "ok"}
        /\ Done => /\ ret = Err(Parse(args.first_number_str).err)
                   /\ parsed = <<args.first_number_str>>

C1_Witness ==
    /\ fn = QM /\ pc = "returned"
    /\ args.first_number_str = <<"t">> /\ args.second_number_str = <<"2">>
    /\ ret = Err(ParseIntError("InvalidDigit"))
    /\ parsed = << <<"t">> >>

\* C2: a chain of and_then/map steps ends with the first failing step's Err (or None)
\* and enters no closure after it: in the combinator multiply no closure runs when the
\* first parse fails and the inner map closure does not run when the second fails; in
\* cookable_v3 have_ingredients is not called when have_recipe answers None
C2_ChainShortCircuits ==
    /\ (fn \in {MWC, AM} /\ IsErr(Parse(args.first_number_str))) =>
           /\ calls = <<>>
           /\ Len(parsed) <= 1
           /\ Done => ret = Err(Parse(args.first_number_str).err)
    /\ (fn \in {MWC, AM} /\ IsOk(Parse(args.first_number_str))
                         /\ IsErr(Parse(args.second_number_str))) =>
           /\ "closure |second_number|" \notin Range(calls)
           /\ Done => /\ ret = Err(Parse(args.second_number_str).err)
                      /\ calls = <<"closure |first_number|">>
    /\ (fn = CV3 /\ have_recipe(args.food) = None) =>
           /\ "have_ingredients" \notin Range(calls)
           /\ Done => ret = None /\ calls = <<"have_recipe">>

C2_Witness ==
    \/ /\ fn = MWC /\ pc = "returned"
       /\ args.first_number_str = <<"t">> /\ args.second_number_str = <<"2">>
       /\ ret = Err(ParseIntError("InvalidDigit")) /\ calls = <<>>
    \/ /\ fn = CV3 /\ pc = "returned" /\ args.food = "CordonBleu"
       /\ ret = None /\ calls = <<"have_recipe">>

\* C3: in wrapping_errors::double_first a failed parse of the first element returns at
\* once Err(DoubleError::Parse(e)) through From, and the doubling never runs; the `?`
\* multiply, whose error type is the parse error itself, returns the error unchanged
C3_TryConvertsOrPassesThrough ==
    /\ (fn = WDF /\ Len(args.vec) > 0 /\ IsErr(Parse(args.vec[1]))) =>
           /\ pc # "ok"
           /\ "2 * parsed" \notin Range(calls)
           /\ Done => /\ ret = Err(DoubleError_Parse(Parse(args.vec[1]).err))
                      /\ calls = <<"DoubleError::from">>
    /\ (fn = QM /\ Done /\ IsErr(Parse(args.first_number_str))) =>
           ret = Err(Parse(args.first_number_str).err)
    /\ (fn = QM /\ Done /\ IsOk(Parse(args.first_number_str))
                /\ IsErr(Parse(args.second_number_str))) =>
           ret = Err(Parse(args.second_number_str).err)

C3_Witness ==
    /\ fn = WDF /\ pc = "returned"
    /\ args.vec = << <<"t", "o", "f", "u">>, <<"4", "2">> >>
    /\ ret = Err(DoubleError_Parse(ParseIntError("InvalidDigit")))
    /\ calls = <<"DoubleError::from">>

\* C4: on an empty vector, double_first (wrapping enum and boxed `?` versions) returns
\* the empty-input error made from the absent first element, and parses nothing
C4_EmptyVectorIsEmptyVecError ==
    /\ (fn = WDF /\ args.vec = <<>>) =>
           /\ parsed = <<>>
           /\ pc \notin {"parse", "try_parse", "ok"}
           /\ Done => ret = Err(DoubleError_EmptyVec)
    /\ (fn = ODF /\ args.vec = <<>>) =>
           /\ parsed = <<>>
           /\ pc \notin {"parse", "try_parse", "ok"}
           /\ Done => ret = Err(Box_from(EmptyVec))

C4_Witness ==
    /\ fn = WDF /\ pc = "returned" /\ args.vec = <<>>
    /\ loc.r0 = Err(DoubleError_EmptyVec)
    /\ ret = Err(DoubleError_EmptyVec) /\ parsed = <<>>

\* C5: a parse error e converted into DoubleError has source() = Some(c) with c's
\* description equal to e's; the wrapper's description is the fixed Parse text, and
\* print writes both lines
C5_SourceKeepsTheCause ==
    (fn = WDF /\ Done /\ Len(args.vec) > 0 /\ IsErr(Parse(args.vec[1]))) =>
        LET e == Parse(args.vec[1]).err
            c == Source(ret.err)
        IN  /\ IsErr(ret)
            /\ IsSome(c)
            /\ Display(c.val) = ParseIntError_fmt(e)
            /\ Display(ret.err) = "the provided string could not be parsed as int"
            /\ Display(ret.err) # Display(c.val)
            /\ pc = "printed" =>
                   out = << <<"Error: ", "the provided string could not be parsed as int">>,
                            <<"  Caused by: ", ParseIntError_fmt(e)>> >>

C5_Witness ==
    /\ fn = WDF /\ pc = "printed"
    /\ args.vec = << <<>> >>
    /\ out = << <<"Error: ", "the provided string could not be parsed as int">>,
                <<"  Caused by: ", "cannot parse integer from empty string">> >>

\* the cause chain of the error a finished wrapping_errors::double_first holds
C6_ChainShape ==
    (fn = WDF /\ IsErr(ret)) =>
        LET ch == Chain(ret.err, MaxWalk)
        IN  /\ Len(ch) <= 2
            /\ \A i, j \in 1..Len(ch) : i # j => ch[i] # ch[j]
            /\ ~IsSome(Source(ch[Len(ch)]))
            /\ ret.err.variant = "EmptyVec" => Len(ch) = 1
            /\ ret.err.variant = "Parse" => Len(ch) = 2 /\ ch[2] = ret.err.e0

\* the error held, and so its cause, is the same after every step that keeps it
C6_CauseKept ==
    (fn = WDF /\ IsErr(ret) /\ fn' = WDF) =>
        /\ IsErr(ret')
        /\ Chain(ret'.err, MaxWalk) = Chain(ret.err, MaxWalk)

\* C6: following source() from any DoubleError ends without revisiting a node: EmptyVec
\* has no cause, Parse(e) has the one cause e, which has none; and the cause an error
\* was built with is never changed afterwards
C6_CauseChainAcyclic == [](C6_ChainShape) /\ [][C6_CauseKept]_vars

C6_Witness ==
    /\ fn = WDF /\ pc = "printed" /\ IsErr(ret)
    /\ ret.err.variant = "Parse"
    /\ Chain(ret.err, MaxWalk) = <<DoubleError_Parse(ParseIntError("InvalidDigit")),
                                   ParseIntError("InvalidDigit")>>

\* C7: boxing_errors::double_first returns a boxed error both for an empty vector and
\* for a first element that does not parse, and print writes the description of
\* either through Display
C7_BoxedErrorsPrintAlike ==
    /\ (fn = BDF /\ Done /\ args.vec = <<>>) =>
           /\ ret = Err(Box_from(EmptyVec))
           /\ pc = "printed" => out = << <<"Error: ", "invalid first item to double">> >>
    /\ (fn = BDF /\ Done /\ Len(args.vec) > 0 /\ IsErr(Parse(args.vec[1]))) =>
           /\ ret = Err(Box_from(Parse(args.vec[1]).err))
           /\ pc = "printed" =>
                  out = << <<"Error: ", ParseIntError_fmt(Parse(args.vec[1]).err)>> >>
    /\ (fn = BDF /\ Done /\ IsErr(ret)) => ret.err.type = "Box"

C7_Witness ==
    /\ fn = BDF /\ pc = "printed" /\ args.vec = <<>>
    /\ out = << <<"Error: ", "invalid first item to double">> >>

\* C8: no call of the combinator or `?` multiply, or of a double_first that does not
\* unwrap, aborts
C8_NeverAborts ==
    (fn \in {MWC, AM, QM, WDF, BDF, ODF, DDF}) => ~IsPanic(ret)

\* C9: when both strings parse, to a and b, and a * b fits in i32, the combinator
\* multiply returns Ok(a * b)
C9_ChainMultiplies ==
    (fn \in {MWC, AM} /\ Done /\ IsOk(Parse(args.first_number_str))
                      /\ IsOk(Parse(args.second_number_str))) =>
        LET a == Parse(args.first_number_str).val
            b == Parse(args.second_number_str).val
        IN  ~MulOverflows(a, b) => ret = Ok(a * b)

C9_Witness ==
    /\ fn = MWC /\ pc = "returned"
    /\ args.first_number_str = <<"1", "0">> /\ args.second_number_str = <<"2">>
    /\ ret = Ok(20)

\* C10: work_phone_area_code answers Some(c) exactly when job, its phone_number and
\* that number's area_code are all present (area code c); it answers None at the first
\* absent link and reads no later link; next_birthday(None) answers None and formats
\* nothing
C10_TryOnOptions ==
    /\ (fn = WPAC /\ ~IsSome(args.self.job)) =>
           /\ ".phone_number" \notin Range(calls) /\ ".area_code" \notin Range(calls)
           /\ Done => ret = None /\ calls = <<"self.job">>
    /\ (fn = WPAC /\ IsSome(args.self.job) /\ ~IsSome(args.self.job.val.phone_number)) =>
           /\ ".area_code" \notin Range(calls)
           /\ Done => ret = None /\ calls = <<"self.job", ".phone_number">>
    /\ (fn = WPAC /\ Done /\ IsSome(args.self.job)
                  /\ IsSome(args.self.job.val.phone_number)) =>
           /\ ret = args.self.job.val.phone_number.val.area_code
           /\ calls = <<"self.job", ".phone_number", ".area_code">>
    /\ (fn = WPAC /\ Done /\ IsSome(ret)) =>
           /\ IsSome(args.self.job)
           /\ IsSome(args.self.job.val.phone_number)
           /\ args.self.job.val.phone_number.val.area_code = ret
    /\ (fn = NB /\ ~IsSome(args.current_age)) =>
           /\ calls = <<>>
           /\ pc \notin {"add", "format"}
           /\ Done => ret = None

C10_Witness ==
    /\ fn = WPAC /\ pc = "returned"
    /\ IsSome(args.self.job) /\ ~IsSome(args.self.job.val.phone_number)
    /\ ret = None /\ calls = <<"self.job", ".phone_number">>

\* C11: cook(Some(Chopped(v))) is Some(Cooked(v)) and process(Some(v)) is Some(Cooked(v))
\* for every food v; cook(None) and process(None) are None, and no mapping closure is
\* entered on None
C11_OptionMapLaw ==
    /\ (fn = "combinators_map::cook" /\ ~IsSome(args.chopped)) =>
           /\ calls = <<>>
           /\ Done => ret = None
    /\ (fn = "combinators_map::cook" /\ Done /\ IsSome(args.chopped)) =>
           /\ args.chopped.val.type = "Chopped"
           /\ ret = Some(Cooked(args.chopped.val.food))
           /\ calls = <<"closure |Chopped(food)|">>
    /\ (fn = "combinators_map::process" /\ ~IsSome(args.food)) =>
           /\ calls = <<>>
           /\ Done => ret = None
    /\ (fn = "combinators_map::process" /\ Done /\ IsSome(args.food)) =>
           /\ ret = Some(Cooked(args.food.val))
           /\ calls = <<"closure |f|", "closure |Peeled(f)|", "closure |Chopped(f)|">>

C11_Witness ==
    /\ fn = "combinators_map::process" /\ pc = "returned"
    /\ args.food = None /\ ret = None /\ calls = <<>>

\* C12: in defining_an_error_type::double_first a first element that fails to parse
\* gives Err(DoubleError) through the map_err closure, with the doubling closure never
\* entered; a first element that parses to n gives Ok(2 * n), with the map_err closure
\* never entered
C12_MapErrThenMap ==
    (fn = DDF /\ Done /\ Len(parsed) = 1) =>
        LET r == Parse(parsed[1])
        IN  IF IsErr(r)
            THEN /\ ret = Err(DoubleErrorUnit)
                 /\ "closure |_| DoubleError" \in Range(calls)
                 /\ "closure |i| 2 * i" \notin Range(calls)
            ELSE /\ IsOk(ret)
                 /\ ret.val % 2 = 0 /\ ret.val \div 2 = r.val
                 /\ "closure |_| DoubleError" \notin Range(calls)

\* C13: or_else does not run its producer when the receiver is Some; in
\* no_fruit.or_else(get_kiwi_as_fallback).or_else(get_lemon_as_fallback) with no_fruit
\* None the kiwi producer runs exactly once, the lemon producer never, and the result
\* is Some(Kiwi)
C13_OrElseIsLazy ==
    (fn = "unpacking_options_and_default::or_else") =>
        /\ "get_lemon_as_fallback" \notin Range(calls)
        /\ IsSome(args.no_fruit) =>
               /\ calls = <<>> /\ out = <<>>
               /\ Done => ret = args.no_fruit
        /\ (~IsSome(args.no_fruit) /\ pc # "or_else_kiwi") =>
               /\ calls = <<"get_kiwi_as_fallback">>
               /\ out = <<"Providing kiwi as fallback">>
               /\ Done => ret = Some("Kiwi")

C13_Witness ==
    /\ fn = "unpacking_options_and_default::or_else" /\ pc = "returned"
    /\ args.no_fruit = None /\ ret = Some("Kiwi")
    /\ calls = <<"get_kiwi_as_fallback">>

\* C14: a.or(b) is a when a is Some and b otherwise: the chain no_fruit.or(orange).or(apple)
\* is its first Some operand from the left (Some(Orange) for None, Some(Orange),
\* Some(Apple)) and is None only when all three are None
C14_OrTakesFirstPresent ==
    (fn = "unpacking_options_and_default::or" /\ Done) =>
        /\ ret = IF IsSome(args.no_fruit) THEN args.no_fruit
                 ELSE IF IsSome(args.orange) THEN args.orange
                 ELSE args.apple
        /\ ret = None <=> (args.no_fruit = None /\ args.orange = None /\ args.apple = None)
        /\ (args.no_fruit = None /\ args.orange = Some("Orange")
                /\ args.apple = Some("Apple")) => ret = Some("Orange")

C14_Witness ==
    /\ fn = "unpacking_options_and_default::or" /\ pc = "returned"
    /\ args.no_fruit = None /\ args.orange = Some("Orange") /\ args.apple = Some("Apple")
    /\ ret = Some("Orange")

\* C15: get_or_insert on a None variable stores Some(value) and the later read prints
\* it; a get_or_insert or get_or_insert_with on a variable that holds Some leaves it
\* as it is and returns the held value, at every call of any sequence of calls
C15_InsertStep ==
    (fn = "unpacking_options_and_default::get_or_insert" /\ pc' = "block"
        /\ loc'.n = loc.n + 1) =>
        IF IsSome(loc.my_fruit)
        THEN loc'.my_fruit = loc.my_fruit /\ loc'.got = loc.my_fruit.val
        ELSE loc'.method = "get_or_insert" =>
                 loc'.my_fruit = Some(loc'.given) /\ loc'.got = loc'.given

C15_ReadAfterInsert ==
    (fn = "unpacking_options_and_default::get_or_insert" /\ pc = "printed" /\ loc.n > 0) =>
        /\ IsSome(loc.my_fruit)
        /\ out[Len(out)] = <<"my_fruit is: ", loc.my_fruit>>

C15_GetOrInsertKeepsStored == [](C15_ReadAfterInsert) /\ [][C15_InsertStep]_vars

C15_Witness ==
    /\ fn = "unpacking_options_and_default::get_or_insert" /\ pc = "printed"
    /\ args.my_fruit = None /\ loc.n = 2
    /\ loc.method = "get_or_insert" /\ loc.given = "Orange"
    /\ loc.my_fruit = Some("Apple") /\ loc.got = "Apple"

\* C16: get_or_insert_with runs its producer exactly once when the variable is None
\* and not at all when it holds Some: a variable that starts as Some(Apple) stays
\* Some(Apple) and get_lemon_as_fallback is never run for it
C16_WithStep ==
    (fn = "unpacking_options_and_default::get_or_insert" /\ pc' = "block"
        /\ loc'.n = loc.n + 1 /\ loc'.method = "get_or_insert_with") =>
        IF IsSome(loc.my_fruit)
        THEN calls' = calls /\ out' = out /\ loc'.my_fruit = loc.my_fruit
        ELSE /\ calls' = Append(calls, "get_lemon_as_fallback")
             /\ loc'.my_fruit = Some("Lemon")

C16_ProducerRuns ==
    (fn = "unpacking_options_and_default::get_or_insert") =>
        /\ Len(calls) <= 1
        /\ IsSome(args.my_fruit) => calls = <<>> /\ loc.my_fruit = args.my_fruit

C16_ProducerOnlyOnNone == [](C16_ProducerRuns) /\ [][C16_WithStep]_vars

C16_Witness ==
    /\ fn = "unpacking_options_and_default::get_or_insert" /\ pc = "printed"
    /\ args.my_fruit = Some("Apple") /\ loc.method = "get_or_insert_with"
    /\ loc.my_fruit = Some("Apple") /\ loc.got = "Apple" /\ calls = <<>>

\* C17: the unwrap-based double_first aborts exactly when the vector is empty or its
\* first element does not parse, and otherwise returns twice the parsed value; nothing
\* after the aborting unwrap is executed, in double_first or in drink
C17_UnwrapIsFatal ==
    /\ (fn = "multiple_error_types::double_first" /\ Done) =>
           LET empty == args.vec = <<>>
               bad == ~empty /\ IsErr(Parse(args.vec[1]))
           IN  /\ IsPanic(ret) <=> (empty \/ bad)
               /\ ~IsPanic(ret) =>
                      ret.val % 2 = 0 /\ ret.val \div 2 = Parse(args.vec[1]).val
               /\ empty => parsed = <<>> /\ calls = <<"vec.first().unwrap()">>
               /\ bad => "2 *" \notin Range(calls)
    /\ (fn = "option_and_unwrap::drink" /\ Done /\ ~IsSome(args.drink)) =>
           /\ IsPanic(ret)
           /\ calls = <<"drink.unwrap()">> /\ out = <<>>

\* C18: divide_non_zero_result(a, b) aborts with "Divide-by-zero error" when b = 0,
\* whatever a is; aborts with "Divide result is zero" when b > 0 and a < b; and
\* otherwise returns a / b, which is at least 1
C18_DivideNonZeroResult ==
    (fn = "divide_non_zero_result" /\ Done) =>
        /\ args.b = 0 => ret = Panic("Divide-by-zero error")
        /\ (args.b > 0 /\ args.a < args.b) => ret = Panic("Divide result is zero")
        /\ (args.b > 0 /\ args.a >= args.b) =>
               /\ ~IsPanic(ret)
               /\ ret.val = args.a \div args.b
               /\ ret.val >= 1

C18_Witness ==
    /\ fn = "divide_non_zero_result" /\ pc = "returned"
    /\ args.a = 0 /\ args.b = 0
    /\ ret = Panic("Divide-by-zero error")

\* x op y as a number, for the op of add_assign, mul_assign or sub_assign
C19_Op(func, x, y) ==
    CASE func = "add_assign" -> x + y
      [] func = "mul_assign" -> x * y
      [] func = "sub_assign" -> x - y

C20_Observed(a, b) ==
    LET first == Parse(a)
        second == Parse(b)
    IN  IF IsErr(first) THEN [parsed |-> <<a>>, ret |-> Err(first.err)]
        ELSE IF IsErr(second) THEN [parsed |-> <<a, b>>, ret |-> Err(second.err)]
        ELSE [parsed |-> <<a, b>>, ret |-> MulI32(first.val, second.val)]

\* C20: the nested match, the and_then/map chain, the match with early return and the
\* `?` multiply end the same way on the same two strings (the same Ok value, the same
\* Err, or the same overflow abort), having attempted the same parses in the same order
C20_MultipliesAgree ==
    (fn \in {MWM, MWC, ERM, QM} /\ Done) =>
        /\ parsed = C20_Observed(args.first_number_str, args.second_number_str).parsed
        /\ ret = C20_Observed(args.first_number_str, args.second_number_str).ret

C20_Witness ==
    /\ fn = QM /\ pc = "returned"
    /\ args.first_number_str = <<"1", "0">>
    /\ args.second_number_str = <<"t", "o", "f", "u">>
    /\ parsed = <<<<"1", "0">>, <<"t", "o", "f", "u">>>>
    /\ ret = Err(ParseIntError("InvalidDigit"))

\* C21: cookable_v1, cookable_v2 and cookable_v3 return the same for every Food:
\* Some(Steak) for Steak, None for CordonBleu and for Sushi; the Option that and_then
\* returns holds the food itself, not a second Option
C21_CookablesAgree ==
    (fn \in {CV1, CV2, CV3} /\ Done) =>
        /\ args.food = "Steak" => ret = Some("Steak")
        /\ args.food \in {"CordonBleu", "Sushi"} => ret = None
        /\ IsSome(ret) => ret.val \in Foods

C21_Witness ==
    /\ fn = CV2 /\ pc = "returned" /\ args.food = "Steak"
    /\ loc.m = Some(Some("Steak")) /\ ret = Some("Steak")

\* C22: the four double_first versions that return a Result (custom error, boxed with
\* combinators, boxed with `?`, wrapping enum) end in the same class for every vector:
\* Ok(2 * n) exactly when the vector is non-empty and its first element parses to n,
\* their empty-input error exactly when it is empty, their parse error otherwise; and
\* only the first element is ever parsed
C22_DoubleFirstsAgree ==
    (fn \in {DDF, BDF, ODF, WDF} /\ Done) =>
        IF args.vec = <<>>
        THEN /\ parsed = <<>>
             /\ ret = Err(CASE fn = DDF -> DoubleErrorUnit
                            [] fn = WDF -> DoubleError_EmptyVec
                            [] OTHER -> Box_from(EmptyVec))
        ELSE LET r == Parse(args.vec[1])
             IN  /\ parsed = <<args.vec[1]>>
                 /\ IsErr(r) =>
                        ret = Err(CASE fn = DDF -> DoubleErrorUnit
                                    [] fn = WDF -> DoubleError_Parse(r.err)
                                    [] OTHER -> Box_from(r.err))
                 /\ IsOk(r) =>
                        /\ IsOk(ret)
                        /\ ret.val % 2 = 0 /\ ret.val \div 2 = r.val

\* C23: a run of main enters every demonstration it lists, in the listed order, and
\* ends normally after iterating_over_results
C23_MainRunsEveryDemonstration ==
    (fn = "main" /\ Done) =>
        /\ ~IsPanic(ret)
        /\ calls = Demonstrations

\* C24: collecting parse results into Result<Vec<_>, _> stops at the first Err: that
\* error is the result and no element after it is parsed; the result is Ok of all the
\* values, in input order, only if every element parses
C24_CollectStopsAtFirstErr ==
    (fn = "iterating_over_results::collect") =>
        LET strings == args.strings
            bad == {k \in 1..Len(strings) : IsErr(Parse(strings[k]))}
        IN  /\ \A k \in 1..Len(parsed) :
                   /\ parsed[k] = strings[k]
                   /\ k < Len(parsed) => k \notin bad
            /\ (Done /\ bad # {}) =>
                   LET first == CHOOSE k \in bad : \A j \in bad : k <= j
                   IN  ret = Err(Parse(strings[first]).err) /\ Len(parsed) = first
            /\ (Done /\ bad = {}) =>
                   /\ parsed = strings
                   /\ IsOk(ret) /\ Len(ret.val) = Len(strings)
                   /\ \A k \in 1..Len(strings) : ret.val[k] = Parse(strings[k]).val
            /\ (Done /\ IsOk(ret)) => bad = {}

C24_Witness ==
    /\ fn = "iterating_over_results::collect" /\ pc = "returned"
    /\ args.strings = << <<"t", "o", "f", "u">>, <<"4", "2">> >>
    /\ parsed = << <<"t", "o", "f", "u">> >>
    /\ ret = Err(ParseIntError("InvalidDigit"))

\* C25: next_birthday(Some(a)) returns Some of the text with next age a + 1 for every
\* a in 0..=255, next_birthday(None) returns None, and the function never aborts
C25_NextBirthday ==
    (fn = NB /\ Done) =>
        /\ ~IsPanic(ret)
        /\ IsSome(args.current_age) =>
               ret = Some(<<"Next year I will be ", args.current_age.val + 1>>)
        /\ ~IsSome(args.current_age) => ret = None

\* C26: under every interleaving of the sender threads, main's NTHREADS recv calls all
\* return, the ids received are exactly 0 .. NTHREADS-1, each once and in any order,
\* and the joins then complete, so channels() terminates
C26_IdsReceived ==
    (fn = "channels") =>
        /\ \A i, j \in 1..Len(loc.ids) : loc.ids[i] = loc.ids[j] => i = j
        /\ Range(loc.ids) \subseteq ThreadIds
        /\ pc \in {"join", "returned"} =>
               Len(loc.ids) = NTHREADS /\ Range(loc.ids) = ThreadIds
        /\ pc = "returned" =>
               /\ loc.joined = NTHREADS
               /\ \A id \in ThreadIds : loc.thread[id] = "exited"
               /\ out = <<loc.ids>>

C26_ChannelsTerminates ==
    [](C26_IdsReceived) /\ <>(fn = "channels" /\ pc = "returned")

C26_Witness ==
    /\ fn = "channels" /\ pc = "returned"
    /\ loc.ids = <<2, 0, 1>> /\ loc.joined = NTHREADS

----------------------------------------------------------------------------
(* C27 *)

\* the sum of all decimal digits of the input, taken over the whole string:
\* each digit value times the number of its occurrences
C27_DigitsOfData ==
    LET occurrences(c) == Cardinality({i \in 1..Len(data) : data[i] = c})
    IN    1 * occurrences("1") + 2 * occurrences("2") + 3 * occurrences("3")
        + 4 * occurrences("4") + 5 * occurrences("5") + 6 * occurrences("6")
        + 7 * occurrences("7") + 8 * occurrences("8") + 9 * occurrences("9")

RECURSIVE C27_SumOfFirst(_, _)
C27_SumOfFirst(children, k) ==
    IF k = 0 THEN 0 ELSE children[k].val + C27_SumOfFirst(children, k - 1)

C27_State ==
    fn = "thread_test_case_map_reduce" =>
        /\ Len(loc.children) <= Len(loc.lines)
        /\ \A i \in 1..Len(loc.children) :
              \/ /\ loc.children[i].tag = "running"
                 /\ loc.children[i].line = loc.lines[i]
              \/ loc.children[i] = chars_sum(loc.lines[i], 1)
        /\ loc.joined <= Len(loc.children)
        /\ \A i \in 1..loc.joined : loc.children[i].tag = "u32"
        /\ loc.sum = C27_SumOfFirst(loc.children, loc.joined)
        /\ pc = "returned" =>
              /\ ret = [tag |-> "Unit"]
              /\ loc.joined = Len(loc.lines)
              /\ loc.sum = C27_DigitsOfData
              /\ out = << <<"thread testcase: sum result ", C27_DigitsOfData>> >>

C27_Step ==
    (fn = "thread_test_case_map_reduce" /\ fn' = fn /\ loc'.children # loc.children) =>
        \/ /\ Len(loc'.children) = Len(loc.children) + 1
           /\ SubSeq(loc'.children, 1, Len(loc.children)) = loc.children
        \/ /\ Len(loc'.children) = Len(loc.children)
           /\ loc'.sum = loc.sum /\ loc'.joined = loc.joined /\ pc' = pc
           /\ \E i \in 1..Len(loc.children) :
                 \A j \in 1..Len(loc.children) :
                    j # i => loc'.children[j] = loc.children[j]

\* C27: in thread_test_case_map_reduce the printed sum is the sum of all
\* decimal digits of the input under every scheduling of the worker threads:
\* there is one thread per whitespace-separated line, a thread ends with the
\* digit sum of its own line, the results are added in spawn order, and a
\* step of one worker changes no other worker's result
C27_MapReduceSum == [](C27_State) /\ [][C27_Step]_vars

C27_Witness ==
    /\ fn = "thread_test_case_map_reduce" /\ pc = "returned"
    /\ Len(loc.lines) = 8
    /\ out = << <<"thread testcase: sum result ", 1342>> >>

----------------------------------------------------------------------------
(* C28 *)

\* the number of lines of f that read l
C28_Lines(f, l) == Cardinality({i \in 1..Len(f) : f[i] = l})

C28_Before == IF IsSome(args[1]) THEN args[1].val ELSE <<>>

\* C28: with test_file and test_file_also running in parallel on ferris.txt,
\* what the file held before stays at its head, every write of a test adds
\* one line of that test's kind, and once both tests have ended exactly five
\* "Ferris" and five "Corro" lines have been added, in whatever order the
\* writes were scheduled
C28_FiveLinesOfEachAdded ==
    fn = "tests" =>
        LET before == C28_Before
            now == IF IsSome(loc.ferris_txt) THEN loc.ferris_txt.val ELSE <<>>
        IN  /\ Len(now) >= Len(before)
            /\ SubSeq(now, 1, Len(before)) = before
            /\ C28_Lines(now, "Ferris") = C28_Lines(before, "Ferris") + loc.test_file.i
            /\ C28_Lines(now, "Corro") = C28_Lines(before, "Corro") + loc.test_file_also.i
            /\ Len(now) = Len(before) + loc.test_file.i + loc.test_file_also.i
            /\ pc = "returned" =>
                  /\ loc.test_file.i = 5 /\ loc.test_file_also.i = 5
                  /\ Len(now) = Len(before) + 10

\* both tests have ended and the lines alternate, "Corro" first
C28_Witness ==
    /\ fn = "tests" /\ pc = "returned"
    /\ args[1] = None
    /\ loc.ferris_txt.val = <<"Corro", "Ferris", "Corro", "Ferris", "Corro",
                              "Ferris", "Corro", "Ferris", "Corro", "Ferris">>

----------------------------------------------------------------------------
(* C29 *)

\* the counts printed so far, in order
C29_PrintedCounts ==
    LET IsCount(l) == Len(l) = 2 /\ l[1] \in {"Reference Count of rc_a: ",
                                              "Reference Count of rc_b: "}
        lines == SelectSeq(out, IsCount)
    IN  [i \in 1..Len(lines) |-> lines[i][2]]

\* C29: in rc_ the strong count of the shared string equals the number of
\* live handles to it: 1 after Rc::new, 2 through rc_b and through rc_a after
\* Rc::clone, 1 again once rc_b has left its scope; the string is dropped
\* exactly when the count is 0, which is at the end of rc_a's scope
C29_StrongCountIsLiveHandles ==
    fn = "rc_" =>
        /\ pc = "new" => loc.box = None /\ loc.handles = {}
        /\ pc # "new" =>
              /\ loc.box.val.strong = Cardinality(loc.handles)
              /\ (loc.box.val.value = None) <=> (loc.box.val.strong = 0)
              /\ (loc.box.val.strong = 0) <=> (pc = "returned")
        /\ pc = "clone" => loc.handles = {"rc_a"} /\ C29_PrintedCounts = <<1>>
        /\ pc = "drop rc_b" => /\ loc.handles = {"rc_a", "rc_b"}
                               /\ C29_PrintedCounts = <<1, 2, 2>>
        /\ pc = "drop rc_a" => /\ loc.handles = {"rc_a"}
                               /\ C29_PrintedCounts = <<1, 2, 2, 1>>
        /\ pc = "returned" => /\ loc.handles = {}
                              /\ C29_PrintedCounts = <<1, 2, 2, 1>>

C29_Witness ==
    /\ fn = "rc_" /\ pc = "returned"
    /\ loc.box.val = [strong |-> 0, value |-> None]
    /\ Len(out) = 11

====
